---- MODULE Spec2Model ----
(***************************************************************************)
(* Model of aisuite's chat-completion client: Completions.create, the      *)
(* bounded multi-turn tool loop Completions._tool_runner, the reasoning    *)
(* post-processing, the tool registry Tools._add_tool and the tool         *)
(* executor Tools.execute_tool.                                            *)
(*                                                                         *)
(* Four specifications share the variables:                                *)
(*   Spec           one create(...) call, single-call or multi-turn        *)
(*   SpecClient     one client over several single-call create(...) calls  *)
(*   SpecExecute    Tools.execute_tool called directly on a batch          *)
(*   SpecRegister   Tools._add_tool called directly on a registry          *)
(*                                                                         *)
(* Python values are represented as follows.                               *)
(*   str            a TLA+ string                                          *)
(*   None           the reserved string None (no modelled text equals it)  *)
(*   list           a sequence                                             *)
(*   dict           a function whose DOMAIN is the set of keys; a dict     *)
(*                  whose key order matters (a tool's return value) is a   *)
(*                  sequence of <<key, value>> pairs                       *)
(*   JSON value     a record [t |-> type tag, v |-> literal text]          *)
(*   isinstance     an object whose class the code tests is a record       *)
(*                  [type |-> class name, value |-> content]               *)
(*   list object    a key of the heap "lists"; two references are the same *)
(*                  object exactly when they are the same key              *)
(***************************************************************************)
EXTENDS Integers, Sequences, FiniteSets, TLC

\* ------------------------------------------------------------------------
\* Bounds of the model
\* ------------------------------------------------------------------------
\* largest max_turns a caller passes
MaxTurns == 3
\* largest number of tool calls in a batch handed to execute_tool directly
MaxBatch == 2

\* ------------------------------------------------------------------------
\* Python primitives
\* ------------------------------------------------------------------------
None == "None"

\* bool(x) for an Optional[str]
Truthy(s) == s # None /\ s # ""

RECURSIVE LStrip(_)
LStrip(s) ==
    IF Len(s) > 0 /\ SubSeq(s, 1, 1) = " " THEN LStrip(SubSeq(s, 2, Len(s))) ELSE s

RECURSIVE RStrip(_)
RStrip(s) ==
    IF Len(s) > 0 /\ SubSeq(s, Len(s), Len(s)) = " "
    THEN RStrip(SubSeq(s, 1, Len(s) - 1))
    ELSE s

\* the string as it is, nothing removed
NoStrip(s) == s

\* str.strip()
Strip(s) == RStrip(LStrip(s))

\* str.startswith(p)
StartsWith(s, p) == Len(s) >= Len(p) /\ SubSeq(s, 1, Len(p)) = p

\* str.find(p): the lowest 0-based index at which p occurs in s, or -1
Find(s, p) ==
    LET hits == {i \in 0..(Len(s) - Len(p)) : SubSeq(s, i + 1, i + Len(p)) = p}
    IN  IF hits = {} THEN -1 ELSE CHOOSE i \in hits : \A j \in hits : i <= j

\* the slice s[a:b] with 0 <= a
Slice(s, a, b) == SubSeq(s, a + 1, b)

\* str.rfind(p): the highest 0-based index at which p occurs in s, or -1
RFind(s, p) ==
    LET hits == {i \in 0..(Len(s) - Len(p)) : SubSeq(s, i + 1, i + Len(p)) = p}
    IN  IF hits = {} THEN -1 ELSE CHOOSE i \in hits : \A j \in hits : i >= j

\* s.rsplit(sep, 1) for an s that holds sep: the parts around the last sep
RSplit1(s, sep) ==
    <<Slice(s, 0, RFind(s, sep)), Slice(s, RFind(s, sep) + Len(sep), Len(s))>>

\* s.split(sep, 1) for an s that holds sep: the parts around the first sep
Split1(s, sep) ==
    <<Slice(s, 0, Find(s, sep)), Slice(s, Find(s, sep) + Len(sep), Len(s))>>

\* all sequences over S of length at most n
SeqsUpTo(S, n) == UNION {[1..k -> S] : k \in 0..n}

\* ------------------------------------------------------------------------
\* JSON texts and values
\* ------------------------------------------------------------------------
JStr(v) == [t |-> "str", v |-> v]
JInt(v) == [t |-> "int", v |-> v]
JFloat(v) == [t |-> "float", v |-> v]
JBool(v) == [t |-> "bool", v |-> v]

ArgsLocation == "{\"location\": \"San Francisco\"}"
ArgsLocationUnit == "{\"location\": \"Paris\", \"unit\": \"Fahrenheit\"}"
ArgsBadType == "{\"location\": 123}"
ArgsEmpty == "{}"
ArgsMalformed == "{\"location\": "

\* json.loads on the argument texts a model produces here: the parsed dict,
\* or a JSONDecodeError
JsonLoads(text) ==
    CASE text = ArgsLocation ->
            [ok |-> TRUE, value |-> [k \in {"location"} |-> JStr("San Francisco")]]
      [] text = ArgsLocationUnit ->
            [ok |-> TRUE,
             value |-> [k \in {"location", "unit"} |->
                          IF k = "location" THEN JStr("Paris") ELSE JStr("Fahrenheit")]]
      [] text = ArgsBadType ->
            [ok |-> TRUE, value |-> [k \in {"location"} |-> JInt("123")]]
      [] text = ArgsEmpty ->
            [ok |-> TRUE, value |-> [k \in {} |-> JStr("")]]
      [] OTHER -> [ok |-> FALSE, value |-> [k \in {} |-> JStr("")]]

RECURSIVE JsonDumpsItems(_)
JsonDumpsItems(pairs) ==
    IF pairs = <<>> THEN ""
    ELSE "\"" \o pairs[1][1] \o "\": \"" \o pairs[1][2] \o "\""
           \o (IF Len(pairs) > 1 THEN ", " ELSE "")
           \o JsonDumpsItems(Tail(pairs))

\* json.dumps of a dict of strings, keys in insertion order
JsonDumps(pairs) == "{" \o JsonDumpsItems(pairs) \o "}"

\* ------------------------------------------------------------------------
\* Tool callables and the registry (aisuite/utils/tools.py)
\* ------------------------------------------------------------------------
\* inspect._empty: no annotation, or no default
Empty == [t |-> "empty", v |-> ""]

\* the Enum classes, each with its members in definition order:
\* class TemperatureUnit(str, Enum): CELSIUS = "Celsius"; FAHRENHEIT = "Fahrenheit"
Enums ==
    [TemperatureUnit |-> << [name |-> "CELSIUS", value |-> JStr("Celsius")],
                            [name |-> "FAHRENHEIT", value |-> JStr("Fahrenheit")] >>]

\* the member of an Enum class with the given underlying value
EnumMember(class, value) == [t |-> class, v |-> value]

\* hasattr(x, "__members__") for a class, hasattr(x, "value") for an object
IsEnum(class) == class \in DOMAIN Enums

\* str(x) of a default: of the sentinels for "no default" (inspect._empty in
\* a signature, PydanticUndefined in a model field), of an Enum member, of a
\* plain value
PyStr(x) ==
    CASE x = Empty -> "PydanticUndefined"
      [] IsEnum(x.t) ->
            LET members == Enums[x.t]
                i == CHOOSE j \in 1..Len(members) : members[j].value.v = x.v
            IN  x.t \o "." \o members[i].name
      [] OTHER -> x.v

\* def get_current_temperature(location: str, unit: str = "Celsius")
GetCurrentTemperature ==
    [callable |-> TRUE, raises |-> None,
     name |-> "get_current_temperature",
     params |-> << [name |-> "location", annotation |-> "str", default |-> Empty],
                   [name |-> "unit", annotation |-> "str", default |-> JStr("Celsius")] >>]

\* def missing_annotation_tool(location, unit="Celsius")
MissingAnnotationTool ==
    [callable |-> TRUE, raises |-> None,
     name |-> "missing_annotation_tool",
     params |-> << [name |-> "location", annotation |-> "empty", default |-> Empty],
                   [name |-> "unit", annotation |-> "empty", default |-> JStr("Celsius")] >>]

\* a later definition under the same name, without annotations and with a
\* body that raises: def get_current_temperature(location, unit="Celsius"),
\* which raises RuntimeError
GetCurrentTemperatureRedefined ==
    [callable |-> TRUE, raises |-> "RuntimeError",
     name |-> "get_current_temperature",
     params |-> << [name |-> "location", annotation |-> "empty", default |-> Empty],
                   [name |-> "unit", annotation |-> "empty", default |-> JStr("Celsius")] >>]

\* def get_current_temperature_v2(location: str,
\*                                unit: TemperatureUnit = TemperatureUnit.CELSIUS)
GetCurrentTemperatureV2 ==
    [callable |-> TRUE, raises |-> None,
     name |-> "get_current_temperature_v2",
     params |-> << [name |-> "location", annotation |-> "str", default |-> Empty],
                   [name |-> "unit", annotation |-> "TemperatureUnit",
                    default |-> EnumMember("TemperatureUnit", "Celsius")] >>]

\* def set_thermostat(target: float, steps: int = 1, hold: bool = False)
SetThermostat ==
    [callable |-> TRUE, raises |-> None,
     name |-> "set_thermostat",
     params |-> << [name |-> "target", annotation |-> "float", default |-> Empty],
                   [name |-> "steps", annotation |-> "int", default |-> JInt("1")],
                   [name |-> "hold", annotation |-> "bool", default |-> JBool("False")] >>]

\* def get_label(location: str, label: str = "PydanticUndefined")
GetLabel ==
    [callable |-> TRUE, raises |-> None,
     name |-> "get_label",
     params |-> << [name |-> "location", annotation |-> "str", default |-> Empty],
                   [name |-> "label", annotation |-> "str",
                    default |-> JStr("PydanticUndefined")] >>]

\* an element of a tools list that is not callable
NotAFunction ==
    [callable |-> FALSE, raises |-> None, name |-> "not_a_function", params |-> <<>>]

\* a tool whose body raises: def failing_tool(location: str), which raises
\* RuntimeError
FailingTool ==
    [callable |-> TRUE, raises |-> "RuntimeError",
     name |-> "failing_tool",
     params |-> << [name |-> "location", annotation |-> "str", default |-> Empty] >>]

\* a tool whose body builds a pydantic model from its argument and fails:
\* def validating_tool(location: str), which raises pydantic.ValidationError
ValidatingTool ==
    [callable |-> TRUE, raises |-> "ValidationError",
     name |-> "validating_tool",
     params |-> << [name |-> "location", annotation |-> "str", default |-> Empty] >>]

\* the body of a tool callable applied to keyword arguments: the value it
\* returns, or the exception it raises
CallTool(func, kwargs) ==
    IF func.raises # None
    THEN [raised |-> TRUE, error |-> func.raises, value |-> <<>>]
    ELSE [raised |-> FALSE, error |-> "",
          value |-> << <<"location", kwargs["location"]>>,
                       <<"unit", kwargs["unit"]>>,
                       <<"temperature", "72">> >>]

\* one field of a pydantic parameter model
ModelField(name, annotation, default) ==
    [name |-> name, annotation |-> annotation, required |-> default = Empty,
     default |-> default]

\* the param_model argument of _add_tool: None, or a pydantic model class
NoParamModel == [given |-> FALSE, fields |-> <<>>]

\* class TemperatureParams(BaseModel)
TemperatureParams ==
    [given |-> TRUE,
     fields |-> << ModelField("location", "str", Empty),
                   ModelField("unit", "str", JStr("Celsius")) >>]

\* class TemperatureParamsV2(BaseModel)
TemperatureParamsV2 ==
    [given |-> TRUE,
     fields |-> << ModelField("location", "str", Empty),
                   ModelField("unit", "TemperatureUnit",
                              EnumMember("TemperatureUnit", "Celsius")) >>]

\* class ThermostatParams(BaseModel): target: float; steps: int = 1;
\* hold: bool = False
ThermostatParams ==
    [given |-> TRUE,
     fields |-> << ModelField("target", "float", Empty),
                   ModelField("steps", "int", JInt("1")),
                   ModelField("hold", "bool", JBool("False")) >>]

\* a mapping that knows the string type only
TypeMappingStrOnly(field_type) ==
    CASE field_type = "str" -> "string"
      [] OTHER -> "<class '" \o field_type \o "'>"

\* type_mapping.get(field_type, str(field_type))
TypeMapping(field_type) ==
    CASE field_type = "str" -> "string"
      [] field_type = "int" -> "integer"
      [] field_type = "float" -> "number"
      [] field_type = "bool" -> "boolean"
      [] OTHER -> "<class '" \o field_type \o "'>"

\* the names of the fields whose default prints as the sentinel, in field
\* order: field.is_required is a bound method and so always true
RECURSIVE RequiredNames(_)
RequiredNames(fields) ==
    IF fields = <<>> THEN <<>>
    ELSE (IF PyStr(Head(fields).default) = "PydanticUndefined"
          THEN <<Head(fields).name>> ELSE <<>>) \o RequiredNames(Tail(fields))

\* one entry of properties: a dict with the keys type and, for an Enum
\* field, enum, and with the key default when the field has one
Property(field) ==
    LET typed == IF IsEnum(field.annotation)
                 THEN [k \in {"type", "enum"} |->
                          IF k = "type" THEN JStr("string")
                          ELSE [i \in 1..Len(Enums[field.annotation]) |->
                                   Enums[field.annotation][i].value]]
                 ELSE [k \in {"type"} |-> JStr(TypeMapping(field.annotation))]
        default == IF IsEnum(field.annotation) /\ IsEnum(field.default.t)
                   THEN JStr(field.default.v)
                   ELSE field.default
    IN  IF PyStr(field.default) # "PydanticUndefined"
        THEN [k \in DOMAIN typed \cup {"default"} |->
                 IF k = "default" THEN default ELSE typed[k]]
        ELSE typed

\* Tools._convert_to_tool_spec(func, param_model); the description texts
\* are left out
ConvertToToolSpec(func, fields) ==
    [name |-> func.name,
     parameters |->
        [type |-> "object",
         properties |-> [n \in {fields[i].name : i \in 1..Len(fields)} |->
                            Property(fields[CHOOSE i \in 1..Len(fields) : fields[i].name = n])],
         required |-> RequiredNames(fields)]]

\* the parameters of func that carry no annotation
Unannotated(func) == {i \in 1..Len(func.params) : func.params[i].annotation = Empty.t}

\* signature inference that takes a parameter without annotation as a string
InferFromSignatureUntyped(func) ==
    LET fields == [i \in 1..Len(func.params) |->
                      ModelField(func.params[i].name,
                                 IF i \in Unannotated(func) THEN "str"
                                 ELSE func.params[i].annotation,
                                 func.params[i].default)]
    IN  [ok |-> TRUE, error |-> "", detail |-> "",
         param_model |-> fields, spec |-> ConvertToToolSpec(func, fields)]

\* Tools.__infer_from_signature: the parameter model (one field per
\* parameter), or a TypeError at the first parameter that has no annotation
InferFromSignature(func) ==
    IF ~func.callable
    THEN \* inspect.signature(func) on an object that is not callable
         [ok |-> FALSE, error |-> "TypeError", detail |-> "", param_model |-> <<>>,
          spec |-> <<>>]
    ELSE IF Unannotated(func) # {}
    THEN LET first == CHOOSE i \in Unannotated(func) : \A j \in Unannotated(func) : i <= j
         IN  [ok |-> FALSE, error |-> "TypeError",
              detail |-> "Parameter '" \o func.params[first].name \o "' in function '"
                         \o func.name \o "' must have a type annotation.",
              param_model |-> <<>>, spec |-> <<>>]
    ELSE LET fields == [i \in 1..Len(func.params) |->
                           ModelField(func.params[i].name, func.params[i].annotation,
                                      func.params[i].default)]
         IN  [ok |-> TRUE, error |-> "", detail |-> "",
              param_model |-> fields, spec |-> ConvertToToolSpec(func, fields)]

\* a registration that leaves an entry of the same name as it is
AddToolKeepFirst(registry, func, param_model) ==
    LET inferred == IF param_model.given
                    THEN [ok |-> TRUE, error |-> "", detail |-> "",
                          param_model |-> param_model.fields,
                          spec |-> ConvertToToolSpec(func, param_model.fields)]
                    ELSE InferFromSignature(func)
        entry == [function |-> func, param_model |-> inferred.param_model,
                  spec |-> inferred.spec]
    IN  IF ~inferred.ok
        THEN [ok |-> FALSE, error |-> inferred.error, detail |-> inferred.detail,
              tools |-> registry]
        ELSE [ok |-> TRUE, error |-> "", detail |-> "",
              tools |-> [n \in DOMAIN registry \cup {func.name} |->
                            IF n \in DOMAIN registry THEN registry[n] ELSE entry]]

\* Tools._add_tool(func, param_model): the registry with the entry of
\* func.__name__ replaced; a given param_model is taken as it is, without
\* a look at the signature of func
AddTool(registry, func, param_model) ==
    LET inferred == IF param_model.given
                    THEN [ok |-> TRUE, error |-> "", detail |-> "",
                          param_model |-> param_model.fields,
                          spec |-> ConvertToToolSpec(func, param_model.fields)]
                    ELSE InferFromSignature(func)
        entry == [function |-> func, param_model |-> inferred.param_model,
                  spec |-> inferred.spec]
    IN  IF ~inferred.ok
        THEN [ok |-> FALSE, error |-> inferred.error, detail |-> inferred.detail,
              tools |-> registry]
        ELSE [ok |-> TRUE, error |-> "", detail |-> "",
              tools |-> [n \in DOMAIN registry \cup {func.name} |->
                            IF n = func.name THEN entry ELSE registry[n]]]

EmptyRegistry == [n \in {} |-> [function |-> NotAFunction, param_model |-> <<>>]]

RECURSIVE AddTools(_, _)
AddTools(registry, funcs) ==
    IF funcs = <<>> THEN [ok |-> TRUE, error |-> "", detail |-> "", tools |-> registry]
    ELSE LET r == AddTool(registry, Head(funcs), NoParamModel)
         IN  IF r.ok THEN AddTools(r.tools, Tail(funcs)) ELSE r

\* Tools.__init__
ToolsInit(funcs) == AddTools(EmptyRegistry, funcs)

\* param_model(**arguments): pydantic validation of a parsed argument dict.
\* A str field accepts only a JSON string, an absent field takes its default,
\* an absent required field is an error, unknown keys are ignored.
TypeAccepts(annotation, value) ==
    CASE annotation = "str" -> value.t = "str"
      [] annotation = "int" -> value.t = "int"
      [] annotation = "float" -> value.t \in {"int", "float"}
      [] annotation = "bool" -> value.t = "bool"
      [] annotation = "TemperatureUnit" ->
            value.t = "str" /\ value.v \in {"Celsius", "Fahrenheit"}
      [] OTHER -> FALSE

ValidateArgs(param_model, arguments) ==
    LET names == {param_model[i].name : i \in 1..Len(param_model)}
        field(n) == param_model[CHOOSE i \in 1..Len(param_model) : param_model[i].name = n]
        fieldOk(n) == IF n \in DOMAIN arguments
                      THEN TypeAccepts(field(n).annotation, arguments[n])
                      ELSE ~field(n).required
    IN  IF \A n \in names : fieldOk(n)
        THEN [ok |-> TRUE,
              \* validated_args.model_dump()
              args |-> [n \in names |->
                          IF n \in DOMAIN arguments THEN arguments[n].v
                          ELSE field(n).default.v]]
        ELSE [ok |-> FALSE, args |-> [n \in {} |-> ""]]

\* ------------------------------------------------------------------------
\* Tools.execute_tool
\* ------------------------------------------------------------------------
\* ChatCompletionMessageToolCall
ToolCall(id, name, arguments) ==
    [id |-> id, type |-> "function", function |-> [name |-> name, arguments |-> arguments]]

\* a Python object whose type the code tests with isinstance: type is the
\* name of its class, value its content
PyObject(type, value) == [type |-> type, value |-> value]
PyList(items) == PyObject("list", items)

\* the value None where the code may also hold an object
PyNone == PyObject("NoneType", <<>>)

\* isinstance(tool_calls, list)
IsList(x) == x.type = "list"

\* the tool message with the role of the legacy function-calling API
ToolMessageFunctionRole(tool_name, result, tool_call_id) ==
    [role |-> "function", name |-> tool_name, content |-> JsonDumps(result),
     tool_call_id |-> tool_call_id]

\* the tool message of one executed call
ToolMessage(tool_name, result, tool_call_id) ==
    [role |-> "tool", name |-> tool_name, content |-> JsonDumps(result),
     tool_call_id |-> tool_call_id]

\* an error text that leaves the tool unnamed
NotRegisteredUnnamed(tool_name) == "Tool not registered."

\* f"Tool '{tool_name}' not registered."
ToolNotRegistered(tool_name) == "Tool '" \o tool_name \o "' not registered."

\* an error text that leaves the tool unnamed
ParametersErrorUnnamed(tool_name) == "Error in tool parameters: "

\* f"Error in tool '{tool_name}' parameters: {e}", up to the text of e
ParametersError(tool_name) == "Error in tool '" \o tool_name \o "' parameters: "

\* "except ValidationError" of the try block, which holds both the
\* validation of the arguments and the invocation of the callable
Caught(e) == e = "ValidationError"

\* the "for tool_call in tool_calls" loop from its i-th iteration on;
\* acc holds results, messages and the log of invoked callables so far, and
\* once an exception leaves the loop, the exception, the iteration (at) and
\* the step of that iteration (stage) that raised it
RECURSIVE ExecuteLoop(_, _, _, _)
ExecuteLoop(registry, tool_calls, i, acc) ==
    IF i > Len(tool_calls) THEN acc
    ELSE
      LET tool_call == tool_calls[i]
          tool_name == tool_call.function.name
          arguments == JsonLoads(tool_call.function.arguments)
          raise(log, stage, e, msg) ==
              [log EXCEPT !.raised = TRUE, !.error = e, !.detail = msg,
                          !.at = i, !.stage = stage,
                          !.results = <<>>, !.messages = <<>>]
          \* an exception e raised inside the try block
          tried(log, stage, e) ==
              IF Caught(e)
              THEN raise(log, stage, "ValueError", ParametersError(tool_name))
              ELSE raise(log, stage, e, "")
      IN  IF ~arguments.ok THEN raise(acc, "parse", "JSONDecodeError", "")
          ELSE IF tool_name \notin DOMAIN registry
          THEN raise(acc, "lookup", "ValueError", ToolNotRegistered(tool_name))
          ELSE
            LET tool == registry[tool_name]
                validated_args == ValidateArgs(tool.param_model, arguments.value)
            IN  IF ~validated_args.ok
                THEN tried(acc, "validate", "ValidationError")
                ELSE
                  LET called == CallTool(tool.function, validated_args.args)
                      result == called.value
                      logged == [acc EXCEPT !.invoked =
                                    Append(@, [name |-> tool_name, id |-> tool_call.id,
                                               kwargs |-> validated_args.args])]
                  IN  IF called.raised
                      THEN tried(logged, "call", called.error)
                      ELSE ExecuteLoop(registry, tool_calls, i + 1,
                             [logged EXCEPT
                                !.results = Append(@, result),
                                !.messages = Append(@, ToolMessage(tool_name, result,
                                                                   tool_call.id))])

\* "results = []" and "messages = []", nothing raised, no callable invoked
NotExecuted == [raised |-> FALSE, error |-> "", detail |-> "", at |-> 0, stage |-> "",
                results |-> <<>>, messages |-> <<>>, invoked |-> <<>>]

\* tool calls whose id was already seen are dropped
RECURSIVE DistinctIds(_, _)
DistinctIds(calls, seen) ==
    IF calls = <<>> THEN <<>>
    ELSE IF Head(calls).id \in seen THEN DistinctIds(Tail(calls), seen)
    ELSE <<Head(calls)>> \o DistinctIds(Tail(calls), seen \cup {Head(calls).id})

ExecuteToolDistinctIds(registry, tool_calls) ==
    ExecuteLoop(registry,
                DistinctIds(IF IsList(tool_calls) THEN tool_calls.value
                            ELSE <<tool_calls.value>>, {}),
                1,
                NotExecuted)

\* execute_tool(tool_calls): (results, messages), or the exception raised
ExecuteTool(registry, tool_calls) ==
    ExecuteLoop(registry,
                IF IsList(tool_calls) THEN tool_calls.value ELSE <<tool_calls.value>>,
                1,
                NotExecuted)

\* ------------------------------------------------------------------------
\* Messages and normalized responses (aisuite/framework)
\* ------------------------------------------------------------------------
\* a message the caller supplies: a dict with role and content
DictMessage(role, content) == [role |-> role, content |-> content]

\* framework.message.Message; tool_calls None is the empty sequence (the
\* client only ever tests "not tool_calls")
Message(content, tool_calls) ==
    [content |-> content, reasoning_content |-> None, tool_calls |-> tool_calls,
     role |-> "assistant", refusal |-> None]

\* ChatCompletionResponse with its single Choice inlined: finish_reason and
\* message are choices[0].finish_reason and choices[0].message; id is the
\* identity of the response object (the ordinal of the adapter call that
\* built it)
Response(id, finish_reason, message) ==
    [id |-> id, finish_reason |-> finish_reason, message |-> message]

\* the value of the local "response" before its first assignment
Unbound == Response(0, None, Message(None, <<>>))

\* Completions._extract_thinking_content
ExtractThinkingContent(response) ==
    LET message == response.message
        content == Strip(message.content)
        start_idx == Len("<think>")
        end_idx == Find(content, "</think>")
    IN  IF Truthy(message.content)
           /\ StartsWith(content, "<think>") /\ Find(content, "</think>") # -1
        THEN [response EXCEPT
                !.message.reasoning_content = Strip(Slice(content, start_idx, end_idx)),
                !.message.content = Strip(Slice(content, end_idx + Len("</think>"),
                                                Len(content)))]
        ELSE response

\* ------------------------------------------------------------------------
\* Adapters (aisuite/providers)
\* ------------------------------------------------------------------------
\* the provider keys of the adapters in aisuite/providers
SupportedProviders ==
    {"anthropic", "aws", "azure", "cerebras", "cohere", "fireworks", "google", "groq",
     "huggingface", "mistral", "nebius", "sambanova", "together", "watsonx", "xai"}

\* the tool calls a model may request: two that the registry can serve, one
\* for a tool that is not registered, one whose arguments are not JSON
CallTemperature1 == ToolCall("call_1", "get_current_temperature", ArgsLocation)
CallTemperature2 == ToolCall("call_2", "get_current_temperature", ArgsLocationUnit)
CallNotRegistered == ToolCall("call_1", "get_weather", ArgsLocation)
CallMalformed == ToolCall("call_2", "get_current_temperature", ArgsMalformed)
CallBadType == ToolCall("call_1", "get_current_temperature", ArgsBadType)
CallNotRegisteredMalformed == ToolCall("call_1", "get_weather", ArgsMalformed)

ToolCalls ==
    {CallTemperature1, CallTemperature2, CallNotRegistered, CallMalformed, CallBadType,
     CallNotRegisteredMalformed}

\* the tool_calls of one assistant message: none, one call, two calls with
\* different ids in either order, two calls with the same id, and batches in
\* which a call fails first or after a call that succeeded
Batches ==
    {<<>>,
     <<CallTemperature1>>,
     <<CallTemperature1, CallTemperature2>>,
     <<CallTemperature2, CallTemperature1>>,
     <<CallTemperature1, CallTemperature1>>,
     <<CallNotRegistered>>,
     <<CallTemperature1, CallMalformed>>,
     <<CallMalformed, CallTemperature1>>,
     <<CallTemperature2, CallNotRegistered>>,
     <<CallNotRegistered, CallTemperature1>>,
     <<CallBadType, CallNotRegistered>>,
     <<CallNotRegisteredMalformed>>}

\* the assistant texts a model may answer with
Contents == {None, " <think> plan </think> final answer "}

\* OpenAICompliantMessageConverter.convert_response: content and tool_calls
\* are taken from the vendor message, finish_reason is never set
OpenAICompliantResponses ==
    {[finish_reason |-> None, message |-> Message(c, b)] : c \in Contents, b \in Batches}

\* AnthropicMessageConverter.convert_response: finish_reason is mapped from
\* the vendor stop_reason; only a tool_use stop carries a tool call, the first
\* tool_use block of the vendor content, if there is one
AnthropicResponses ==
    {[finish_reason |-> f, message |-> Message(c, <<>>)] :
        f \in {"stop", "length", "tool_calls"}, c \in Contents \ {None}}
    \cup
    {[finish_reason |-> "tool_calls", message |-> Message(c, <<t>>)] :
        c \in Contents, t \in ToolCalls}

AdapterResponses(provider_key) ==
    IF provider_key = "anthropic" THEN AnthropicResponses ELSE OpenAICompliantResponses

\* AnthropicMessageConverter._extract_system_message: the list the adapter was
\* handed, after the call
ExtractSystemMessage(msgs) ==
    IF msgs # <<>> /\ msgs[1].role = "system" THEN Tail(msgs) ELSE msgs

\* what chat_completions_create leaves in the list it was handed
AdapterLeaves(provider_key, msgs) ==
    IF provider_key = "anthropic" THEN ExtractSystemMessage(msgs) ELSE msgs

\* the config dict of a provider that has no entry in provider_configs
EmptyConfig == "{}"

\* self.client.provider_configs.get(provider_key, {})
ConfigGet(configs, key) ==
    IF \E i \in 1..Len(configs) : configs[i].key = key
    THEN configs[CHOOSE i \in 1..Len(configs) : configs[i].key = key].config
    ELSE EmptyConfig

\* ProviderFactory.create_provider(key, config): a new adapter instance,
\* entered in the log of constructions; instances are numbered as built
CreateProvider(log, key, config) ==
    Append(log, [key |-> key, config |-> config, instance |-> Len(log) + 1])

\* only a model identifier without a colon is turned down
RejectedWithoutColon(model_id) == Find(model_id, ":") = -1

\* the two checks create makes on the model identifier: ":" not in model,
\* and the part before the first colon not in the supported providers
Rejected(model_id) ==
    \/ Find(model_id, ":") = -1
    \/ Split1(model_id, ":")[1] \notin SupportedProviders

\* an adapter is built on every call
NeverCached(cache, key) == FALSE

\* "provider_key not in self.client.providers", negated
IsCached(cache, key) == key \in DOMAIN cache

\* Client._initialize_providers: one adapter built per item of the configs
RECURSIVE InitializeProviders(_, _)
InitializeProviders(configs, log) ==
    IF configs = <<>> THEN log
    ELSE InitializeProviders(Tail(configs),
                             CreateProvider(log, Head(configs).key, Head(configs).config))

\* self.providers after the constructions of log: for each key the instance
\* built last
ProvidersOf(log) ==
    [k \in {log[i].key : i \in 1..Len(log)} |->
        log[CHOOSE i \in 1..Len(log) :
               log[i].key = k /\ \A j \in 1..Len(log) : log[j].key = k => j <= i].instance]

\* the dict objects before any client has put an item in one
NoConfigs == [default |-> <<>>, own |-> <<>>, other |-> <<>>]

\* Client.__init__ of a second client on the dict object ref of the heap
\* heap: its provider_configs is that object, its adapters are built from
\* the object's items and numbered within that client
SecondClient(ref, heap) ==
    [provider_configs |-> ref, providers |-> ProvidersOf(InitializeProviders(heap[ref], <<>>))]

\* no _add_tool call made yet
NotRegistered ==
    [func |-> NotAFunction, param_model |-> NoParamModel, before |-> EmptyRegistry,
     raised |-> FALSE, error |-> "", detail |-> ""]

\* ------------------------------------------------------------------------
\* The client: state
\* ------------------------------------------------------------------------
VARIABLES
    pc,                     \* where the create(...) call stands
    mode,                   \* "tool_runner" once create entered _tool_runner,
                            \* "single" once it took the one-call path
    lists,                  \* heap of list objects: "caller" is the caller's
                            \* message list, "private" the copy made by create
    original,               \* the caller's list as it was when create was called
    messages,               \* the list object create hands on (a key of lists)
    calls,                  \* the number of create(...) calls made on the client
    provider_configs,       \* Client.provider_configs: the dict object (a key of dicts)
    providers,              \* Client.providers: provider key -> adapter instance
    constructed,            \* log: one entry per adapter instance constructed
    model,                  \* the model argument of the create(...) call
    provider_key,           \* the adapter create dispatched to
    model_name,             \* the model name create passes to the adapter
    options,                \* the keys of the keyword arguments passed to the adapter
    tools,                  \* the tools argument handed to _tool_runner
    tools_instance,         \* _tool_runner's registry (Tools._tools)
    max_turns,              \* _tool_runner's max_turns
    turns,                  \* _tool_runner's turn counter
    response,               \* _tool_runner's local "response"
    intermediate_responses, \* _tool_runner's list of responses
    intermediate_messages,  \* _tool_runner's list of assistant and tool messages
    result,                 \* what create returned
    error,                  \* the exception that left create
    raised_by,              \* the code that raised it
    adapter_calls,          \* log: one entry per chat_completions_create call
    invoked,                \* log: one entry per invocation of a tool callable
    batch,                  \* the tool_calls argument of a direct execute_tool call
    outcome,                \* what that call returned or raised
    registration,           \* the last direct _add_tool call: its arguments, the
                            \* registry it found and the exception it raised
    registered,             \* log: one entry per direct _add_tool call
    keyword_arguments,      \* the **kwargs of the create(...) call, as passed
    dicts,                  \* heap of dict objects that serve as provider_configs:
                            \* "default" is the default value of __init__'s parameter,
                            \* "own" and "other" are dicts passed by a caller
    second,                 \* a second Client of the same process
    configured              \* log: one entry per configure(...) call on the client

vars == <<pc, mode, raised_by, lists, original, messages, providers, provider_key, model_name, options,
          tools_instance, model, tools, provider_configs, dicts, second, configured, constructed, calls,
          registration, registered, keyword_arguments,
          max_turns, turns, response, intermediate_responses, intermediate_messages,
          result, error, adapter_calls, invoked, batch, outcome>>

\* ------------------------------------------------------------------------
\* Inputs of create(...)
\* ------------------------------------------------------------------------
SystemMessage == DictMessage("system", "You are a helpful assistant.")
UserMessage == DictMessage("user", "What is the temperature in San Francisco?")

CallerLists == {<<UserMessage>>, <<SystemMessage, UserMessage>>}

Models == {"groq:llama3-70b-8192", "anthropic:claude-3-5-sonnet", "llama3-70b-8192",
           "unknown:foo"}

\* the values of the tools argument: a list, or a Tools instance built from
\* the callables in value
ToolsArguments ==
    {PyList(<<GetCurrentTemperature>>),
     PyList(<<GetCurrentTemperature, NotAFunction>>),
     PyObject("Tools", <<GetCurrentTemperature>>)}

\* the keyword arguments of create: a dict that holds max_turns and tools
\* only when the caller passes them
Kwargs(keys, mt, tl) == [k \in keys |-> IF k = "max_turns" THEN mt ELSE tl]

KwargsSet ==
    {Kwargs(keys, mt, tl) :
        keys \in SUBSET {"max_turns", "tools"}, mt \in 0..MaxTurns, tl \in ToolsArguments}

\* create is called with model and messages only
NoKwargs == Kwargs({}, 0, PyNone)

\* kwargs with temperature=0.75 added
WithTemperature(kwargs) ==
    [k \in DOMAIN kwargs \cup {"temperature"} |->
        IF k = "temperature" THEN PyObject("float", "0.75") ELSE kwargs[k]]

\* the keys of kwargs with max_turns among them
KeepMaxTurns(kwargs) == DOMAIN kwargs

\* the keys of kwargs after kwargs.pop("max_turns", None)
PopMaxTurns(kwargs) == DOMAIN kwargs \ {"max_turns"}

NoResult == [response |-> Unbound, intermediate_responses |-> <<>>,
             intermediate_messages |-> <<>>]

Init ==
    /\ pc = "idle"
    /\ mode = None
    /\ raised_by = None
    /\ \E l \in CallerLists : /\ lists = [caller |-> l, private |-> <<>>]
                              /\ original = l
    /\ messages = "caller"
    /\ calls = 0
    /\ model = None
    /\ provider_configs = "default"
    /\ dicts = NoConfigs
    /\ second = SecondClient("default", NoConfigs)
    /\ configured = <<>>
    /\ providers = [k \in {} |-> 0]
    /\ constructed = <<>>
    /\ tools = PyNone
    /\ provider_key = None
    /\ model_name = None
    /\ options = {}
    /\ tools_instance = EmptyRegistry
    /\ max_turns = 0
    /\ turns = 0
    /\ response = Unbound
    /\ intermediate_responses = <<>>
    /\ intermediate_messages = <<>>
    /\ result = NoResult
    /\ error = None
    /\ adapter_calls = <<>>
    /\ invoked = <<>>
    /\ batch = PyList(<<>>)
    /\ outcome = NotExecuted
    /\ registration = NotRegistered
    /\ registered = <<>>
    /\ keyword_arguments = NoKwargs

\* ------------------------------------------------------------------------
\* Completions.create and Completions._tool_runner
\* ------------------------------------------------------------------------
\* the caller's list itself handed on, no copy made
AliasOf(ref) == ref

\* messages.copy(): the list object that receives the copy
CopyOf(ref) == "private"

\* the whole list, the final response not excluded
KeepLast(s) == s

\* s[:-1]
ExcludeLast(s) == SubSeq(s, 1, Len(s) - 1)

\* what reaches the adapter in one chat_completions_create call
AdapterCall(handed, returned) ==
    [provider |-> provider_key, instance |-> providers[provider_key],
     model |-> model_name, messages |-> handed,
     options |-> options, returned |-> returned]

\* one pass too many
WhileConditionInclusive(t, m) == t <= m

\* "while turns < max_turns"
WhileCondition(t, m) == t < m

\* the test made on finish_reason instead of on tool_calls
HasToolCallsByFinishReason(r) == r.finish_reason = "tool_calls"

\* the test of "if not tool_calls" on a response
HasToolCalls(r) == r.message.tool_calls # <<>>

\* the tool messages in reverse order
TranscriptExtensionReversed(message, tool_messages) ==
    <<message>> \o [i \in 1..Len(tool_messages) |->
                      tool_messages[Len(tool_messages) + 1 - i]]

\* the list passed to messages.extend(...)
TranscriptExtension(message, tool_messages) == <<message>> \o tool_messages

\* any(callable(tool) for tool in tools)
AnyCallable(funcs) == \E i \in 1..Len(funcs) : funcs[i].callable

\* all(callable(tool) for tool in tools)
AllCallable(funcs) == \A i \in 1..Len(funcs) : funcs[i].callable

\* create(model, messages, **kwargs) up to its dispatch: validation of the
\* model identifier, the lazily built adapter, and for max_turns with tools
\* the entry of _tool_runner (tools validation, registry, loop variables).
\* credentials tells whether the adapter's constructor finds its API key.
Create(model_id, kwargs, credentials) ==
    /\ pc = "idle"
    /\ calls' = calls + 1
    /\ model' = model_id
    /\ LET key == Split1(model_id, ":")[1]
           name == Split1(model_id, ":")[2]
       IN  IF Rejected(model_id)
           THEN /\ pc' = "raised"
                /\ error' = "ValueError"
                /\ raised_by' = "create"
                /\ UNCHANGED <<mode, lists, messages, providers, constructed, provider_key,
                               model_name, options, tools, tools_instance, max_turns>>
           ELSE IF ~IsCached(providers, key) /\ ~credentials
           THEN /\ pc' = "raised"
                /\ error' = "ValueError"
                /\ raised_by' = "provider"
                /\ UNCHANGED <<mode, lists, messages, providers, constructed, provider_key,
                               model_name, options, tools, tools_instance, max_turns>>
           ELSE
             /\ constructed' = IF IsCached(providers, key) THEN constructed
                               ELSE CreateProvider(constructed, key,
                                                   ConfigGet(dicts[provider_configs], key))
             /\ providers' = IF IsCached(providers, key) THEN providers
                             ELSE [k \in DOMAIN providers \cup {key} |->
                                     IF k = key THEN Len(constructed')
                                     ELSE providers[k]]
             /\ provider_key' = key
             /\ model_name' = name
             /\ IF "max_turns" \in DOMAIN kwargs /\ "tools" \in DOMAIN kwargs
                THEN LET private == CopyOf("caller")
                         built == ToolsInit(kwargs["tools"].value)
                     IN  /\ mode' = "tool_runner"
                         /\ lists' = [lists EXCEPT ![private] = lists["caller"]]
                         /\ messages' = private
                         \* _tool_runner is called without **kwargs and sets
                         \* kwargs["tools"] itself
                         /\ options' = {"tools"}
                         /\ tools' = kwargs["tools"]
                         /\ max_turns' = kwargs["max_turns"]
                         /\ IF /\ kwargs["tools"].type # "Tools"
                               /\ ~AllCallable(kwargs["tools"].value)
                            THEN /\ pc' = "raised"
                                 /\ error' = "ValueError"
                                 /\ raised_by' = "callable_check"
                                 /\ UNCHANGED tools_instance
                            ELSE IF ~built.ok
                            THEN /\ pc' = "raised"
                                 /\ error' = built.error
                                 /\ raised_by' = "Tools.__init__"
                                 /\ UNCHANGED tools_instance
                            ELSE /\ tools_instance' = built.tools
                                 /\ pc' = "loop"
                                 /\ UNCHANGED <<error, raised_by>>
                ELSE /\ mode' = "single"
                     /\ options' = PopMaxTurns(kwargs)
                     /\ messages' = "caller"
                     /\ pc' = "single"
                     /\ UNCHANGED <<lists, tools, tools_instance, max_turns, error,
                                    raised_by>>
    /\ original' = lists["caller"]
    /\ turns' = 0
    /\ intermediate_responses' = <<>>
    /\ intermediate_messages' = <<>>
    /\ keyword_arguments' = kwargs
    /\ UNCHANGED <<provider_configs, dicts, second, configured, response, result,
                   adapter_calls, invoked, batch, outcome, registration, registered>>

\* one pass of "while turns < max_turns" up to the test of tool_calls: the
\* adapter call, the post-processing and the two appends
ModelCall(raw) ==
    /\ UNCHANGED <<model, tools, provider_configs, dicts, second, configured, constructed, calls,
                 registration, registered,
                   keyword_arguments>>
    /\ pc = "loop"
    /\ WhileCondition(turns, max_turns)
    /\ LET handed == lists[messages]
           returned == Response(Len(adapter_calls) + 1, raw.finish_reason, raw.message)
           obtained == ExtractThinkingContent(returned)
       IN  /\ adapter_calls' = Append(adapter_calls, AdapterCall(handed, returned))
           /\ lists' = [lists EXCEPT ![messages] = AdapterLeaves(provider_key, handed)]
           /\ response' = obtained
           /\ intermediate_responses' = Append(intermediate_responses, obtained)
           /\ intermediate_messages' = Append(intermediate_messages, obtained.message)
    /\ pc' = "inspect"
    /\ UNCHANGED <<mode, original, messages, providers, provider_key, model_name, options,
                   tools_instance, max_turns, turns, result, error, raised_by, invoked, batch,
                   outcome>>

\* "if not tool_calls": the response is returned with the intermediate data
ReturnFinal ==
    /\ UNCHANGED <<model, tools, provider_configs, dicts, second, configured, constructed, calls,
                 registration, registered,
                   keyword_arguments>>
    /\ pc = "inspect"
    /\ ~HasToolCalls(response)
    /\ result' = [response |-> response,
                  intermediate_responses |-> ExcludeLast(intermediate_responses),
                  intermediate_messages |-> intermediate_messages]
    /\ pc' = "done"
    /\ UNCHANGED <<mode, lists, original, messages, providers, provider_key, model_name, options,
                   tools_instance, max_turns, turns, response, intermediate_responses,
                   intermediate_messages, error, raised_by, adapter_calls, invoked, batch,
                   outcome>>

\* the rest of the pass: execute_tool on the tool calls, the tool messages
\* and the transcript extended, the turn counted
ExecuteTools ==
    /\ UNCHANGED <<model, tools, provider_configs, dicts, second, configured, constructed, calls,
                 registration, registered,
                   keyword_arguments>>
    /\ pc = "inspect"
    /\ HasToolCalls(response)
    /\ LET executed == ExecuteTool(tools_instance, PyList(response.message.tool_calls))
       IN  /\ batch' = PyList(response.message.tool_calls)
           /\ outcome' = executed
           /\ invoked' = invoked \o executed.invoked
           /\ IF executed.raised
              THEN /\ pc' = "raised"
                   /\ error' = executed.error
                   /\ raised_by' = "execute_tool"
                   /\ UNCHANGED <<lists, intermediate_messages, turns>>
              ELSE /\ intermediate_messages' = intermediate_messages \o executed.messages
                   /\ lists' = [lists EXCEPT ![messages] =
                                   @ \o TranscriptExtension(response.message,
                                                            executed.messages)]
                   /\ turns' = turns + 1
                   /\ pc' = "loop"
                   /\ UNCHANGED <<error, raised_by>>
    /\ UNCHANGED <<mode, original, messages, providers, provider_key, model_name, options,
                   tools_instance, max_turns, response, intermediate_responses, result,
                   adapter_calls>>

\* the code after the loop: the last response is returned with the
\* intermediate data; "response" is unbound when the body never ran
LoopExit ==
    /\ UNCHANGED <<model, tools, provider_configs, dicts, second, configured, constructed, calls,
                 registration, registered,
                   keyword_arguments>>
    /\ pc = "loop"
    /\ ~WhileCondition(turns, max_turns)
    /\ IF response = Unbound
       THEN /\ pc' = "raised"
            /\ error' = "UnboundLocalError"
            /\ raised_by' = "_tool_runner"
            /\ UNCHANGED result
       ELSE /\ result' = [response |-> response,
                          intermediate_responses |-> ExcludeLast(intermediate_responses),
                          intermediate_messages |-> intermediate_messages]
            /\ pc' = "done"
            /\ UNCHANGED <<error, raised_by>>
    /\ UNCHANGED <<mode, lists, original, messages, providers, provider_key, model_name, options,
                   tools_instance, max_turns, turns, response, intermediate_responses,
                   intermediate_messages, adapter_calls, invoked, batch, outcome>>

\* create without max_turns or without tools: one adapter call, post-processed
SingleCall(raw) ==
    /\ UNCHANGED <<model, tools, provider_configs, dicts, second, configured, constructed, calls,
                 registration, registered,
                   keyword_arguments>>
    /\ pc = "single"
    /\ LET handed == lists[messages]
           returned == Response(Len(adapter_calls) + 1, raw.finish_reason, raw.message)
           obtained == ExtractThinkingContent(returned)
       IN  /\ adapter_calls' = Append(adapter_calls, AdapterCall(handed, returned))
           /\ lists' = [lists EXCEPT ![messages] = AdapterLeaves(provider_key, handed)]
           /\ response' = obtained
           /\ result' = [response |-> obtained, intermediate_responses |-> <<>>,
                         intermediate_messages |-> <<>>]
    /\ pc' = "done"
    /\ UNCHANGED <<mode, original, messages, providers, provider_key, model_name, options,
                   tools_instance, max_turns, turns, intermediate_responses,
                   intermediate_messages, error, raised_by, invoked, batch, outcome>>

\* chat_completions_create raises: the exception leaves create
AdapterFails ==
    /\ UNCHANGED <<model, tools, provider_configs, dicts, second, configured, constructed, calls,
                 registration, registered,
                   keyword_arguments>>
    /\ \/ pc = "loop" /\ WhileCondition(turns, max_turns)
       \/ pc = "single"
    /\ LET handed == lists[messages]
       IN  /\ adapter_calls' = Append(adapter_calls, AdapterCall(handed, Unbound))
           /\ lists' = [lists EXCEPT ![messages] = AdapterLeaves(provider_key, handed)]
    /\ pc' = "raised"
    /\ error' = "LLMError"
    /\ raised_by' = "adapter"
    /\ UNCHANGED <<mode, original, messages, providers, provider_key, model_name, options,
                   tools_instance, max_turns, turns, response, intermediate_responses,
                   intermediate_messages, result, invoked, batch, outcome>>

Next ==
    \/ \E model_id \in Models, kwargs \in KwargsSet, credentials \in BOOLEAN :
           Create(model_id, kwargs, credentials)
    \/ \E raw \in AdapterResponses(provider_key) : ModelCall(raw)
    \/ ReturnFinal
    \/ ExecuteTools
    \/ LoopExit
    \/ \E raw \in AdapterResponses(provider_key) : SingleCall(raw)
    \/ AdapterFails

Spec == Init /\ [][Next]_vars

\* ------------------------------------------------------------------------
\* One create(...) call with and without a sampling option
\* ------------------------------------------------------------------------
OptionKwargs ==
    LET plain == {Kwargs(keys, mt, PyList(<<GetCurrentTemperature>>)) :
                     keys \in SUBSET {"max_turns", "tools"}, mt \in 0..MaxTurns}
    IN  plain \cup {WithTemperature(kwargs) : kwargs \in plain}

NextOptions ==
    \/ \E kwargs \in OptionKwargs : Create("groq:llama3-70b-8192", kwargs, TRUE)
    \/ \E raw \in AdapterResponses(provider_key) : ModelCall(raw)
    \/ ReturnFinal
    \/ ExecuteTools
    \/ LoopExit
    \/ \E raw \in AdapterResponses(provider_key) : SingleCall(raw)
    \/ AdapterFails

SpecOptions == Init /\ [][NextOptions]_vars

\* ------------------------------------------------------------------------
\* One client over several create(...) calls
\* ------------------------------------------------------------------------
\* the number of create(...) calls made on one client
MaxCalls == 3

\* the number of configure(...) calls made on one client
MaxConfigures == 1

\* the number of direct _add_tool calls made on one registry
MaxRegistrations == 2

\* a provider_configs dict a caller passes: empty, or with an item for groq
ProviderConfigs == {<<>>, <<[key |-> "groq", config |-> "{\"api_key\": \"gsk\"}"]>>}

\* the provider_configs argument of Client(...) and of configure(...): left
\* out, or a dict with its items in order
NoArgument == [given |-> FALSE, items |-> <<>>]
DictArgument(items) == [given |-> TRUE, items |-> items]

ClientArguments == {NoArgument} \cup {DictArgument(c) : c \in ProviderConfigs}

ConfigureArguments ==
    {NoArgument,
     DictArgument(<<[key |-> "groq", config |-> "{\"api_key\": \"gsk2\"}"]>>),
     DictArgument(<<[key |-> "aws", config |-> "{\"region_name\": \"us-west-2\"}"]>>),
     DictArgument(<<[key |-> "unknown", config |-> "{}"]>>)}

\* dict.update(items): the value of an existing key is replaced where the
\* key stands, a new key is added at the end
RECURSIVE DictUpdate(_, _)
DictUpdate(d, items) ==
    IF items = <<>> THEN d
    ELSE LET item == Head(items)
             updated == IF \E i \in 1..Len(d) : d[i].key = item.key
                        THEN [i \in 1..Len(d) |-> IF d[i].key = item.key THEN item ELSE d[i]]
                        ELSE Append(d, item)
         IN  DictUpdate(updated, Tail(items))

\* the items _initialize_providers handles before _validate_provider_key
\* raises: those in front of the first unsupported key
RECURSIVE SupportedPrefix(_)
SupportedPrefix(configs) ==
    IF configs = <<>> \/ Head(configs).key \notin SupportedProviders THEN <<>>
    ELSE <<Head(configs)>> \o SupportedPrefix(Tail(configs))

ClientModels ==
    {"groq:llama3-70b-8192", "aws:meta.llama3-1-8b-instruct-v1:0", "llama3-70b-8192",
     "unknown:foo"}

\* the adapter answers with a final text
ClientResponses ==
    {r \in OpenAICompliantResponses : r.message.tool_calls = <<>> /\ r.message.content # None}

\* Client(provider_configs)
InitClient ==
    /\ pc = "idle"
    /\ mode = None
    /\ raised_by = None
    /\ lists = [caller |-> <<SystemMessage, UserMessage>>, private |-> <<>>]
    /\ original = <<SystemMessage, UserMessage>>
    /\ messages = "caller"
    /\ calls = 0
    /\ model = None
    /\ \E first \in ClientArguments, other \in ClientArguments :
          /\ dicts = [default |-> <<>>, own |-> first.items, other |-> other.items]
          /\ provider_configs = IF first.given THEN "own" ELSE "default"
          /\ constructed = InitializeProviders(dicts[provider_configs], <<>>)
          /\ providers = ProvidersOf(constructed)
          /\ second = SecondClient(IF other.given THEN "other" ELSE "default", dicts)
    /\ configured = <<>>
    /\ tools = PyNone
    /\ provider_key = None
    /\ model_name = None
    /\ options = {}
    /\ tools_instance = EmptyRegistry
    /\ max_turns = 0
    /\ turns = 0
    /\ response = Unbound
    /\ intermediate_responses = <<>>
    /\ intermediate_messages = <<>>
    /\ result = NoResult
    /\ error = None
    /\ adapter_calls = <<>>
    /\ invoked = <<>>
    /\ batch = PyList(<<>>)
    /\ outcome = NotExecuted
    /\ registration = NotRegistered
    /\ registered = <<>>
    /\ keyword_arguments = NoKwargs

\* create(...) returns or raises to its caller, who may call create again:
\* what belonged to the call is gone, the client and the caller's list stay
Return ==
    /\ pc \in {"done", "raised"}
    /\ calls < MaxCalls
    /\ pc' = "idle"
    /\ mode' = None
    /\ raised_by' = None
    /\ error' = None
    /\ lists' = [lists EXCEPT !["private"] = <<>>]
    /\ messages' = "caller"
    /\ tools' = PyNone
    /\ provider_key' = None
    /\ model_name' = None
    /\ options' = {}
    /\ tools_instance' = EmptyRegistry
    /\ max_turns' = 0
    /\ turns' = 0
    /\ response' = Unbound
    /\ intermediate_responses' = <<>>
    /\ intermediate_messages' = <<>>
    /\ result' = NoResult
    /\ UNCHANGED <<original, calls, model, provider_configs, dicts, second, configured,
                   providers, constructed, adapter_calls, invoked, batch, outcome,
                   registration, registered,
                   keyword_arguments>>

\* configure(provider_configs): the client's dict updated in place, then
\* every item of it, old or new, given a newly built adapter. credentials
\* tells whether the adapters' constructors find their API keys.
Configure(argument, credentials) ==
    /\ pc = "idle"
    /\ Len(configured) < MaxConfigures
    /\ IF ~argument.given
       THEN /\ configured' = Append(configured, [provider_configs |-> argument, raised |-> FALSE])
            /\ UNCHANGED <<dicts, constructed, providers>>
       ELSE LET updated == DictUpdate(dicts[provider_configs], argument.items)
                handled == IF credentials THEN SupportedPrefix(updated) ELSE <<>>
            IN  /\ dicts' = [dicts EXCEPT ![provider_configs] = updated]
                /\ constructed' = InitializeProviders(handled, constructed)
                /\ providers' = ProvidersOf(constructed')
                /\ configured' = Append(configured, [provider_configs |-> argument,
                                                     raised |-> handled # updated])
    /\ UNCHANGED <<pc, mode, raised_by, lists, original, messages, calls, model,
                   provider_configs, second, tools, provider_key, model_name, options,
                   tools_instance, max_turns, turns, response, intermediate_responses,
                   intermediate_messages, result, error, adapter_calls, invoked, batch,
                   outcome, registration, registered,
                   keyword_arguments>>

NextClient ==
    \/ \E model_id \in ClientModels, credentials \in BOOLEAN :
           Create(model_id, NoKwargs, credentials)
    \/ \E raw \in ClientResponses : SingleCall(raw)
    \/ AdapterFails
    \/ Return

SpecClient == InitClient /\ [][NextClient]_vars

\* the same clients with configure(...) calls between create(...) calls whose
\* model identifier is valid and whose adapter answers
ConfiguredModels == {"groq:llama3-70b-8192", "aws:meta.llama3-1-8b-instruct-v1:0"}

NextConfigure ==
    \/ \E argument \in ConfigureArguments, credentials \in BOOLEAN :
           Configure(argument, credentials)
    \/ \E model_id \in ConfiguredModels : Create(model_id, NoKwargs, TRUE)
    \/ \E raw \in ClientResponses : SingleCall(raw)
    \/ Return

SpecConfigure == InitClient /\ [][NextConfigure]_vars

\* ------------------------------------------------------------------------
\* Tools.execute_tool called directly on a registry
\* ------------------------------------------------------------------------
ToolCallIds == {"call_1", "call_2"}
ToolNames == {"get_current_temperature", "get_weather", "failing_tool", "validating_tool"}
ArgumentTexts == {ArgsLocation, ArgsLocationUnit, ArgsBadType, ArgsEmpty, ArgsMalformed}

AnyToolCalls ==
    {ToolCall(id, name, arguments) :
        id \in ToolCallIds, name \in ToolNames, arguments \in ArgumentTexts}

\* the values of the tool_calls argument: a list of tool calls, or one tool
\* call that is not in a list
ToolCallLists == {PyList(b) : b \in SeqsUpTo(AnyToolCalls, MaxBatch)}
SingleToolCalls == {PyObject("ChatCompletionMessageToolCall", t) : t \in AnyToolCalls}

InitExecute ==
    /\ pc = "execute_tool"
    /\ mode = None
    /\ raised_by = None
    /\ tools_instance = ToolsInit(<<GetCurrentTemperature, FailingTool, ValidatingTool>>).tools
    /\ \/ batch \in ToolCallLists
       \/ batch \in SingleToolCalls
    /\ outcome = NotExecuted
    /\ registration = NotRegistered
    /\ registered = <<>>
    /\ keyword_arguments = NoKwargs
    /\ invoked = <<>>
    /\ lists = [caller |-> <<>>, private |-> <<>>]
    /\ original = <<>>
    /\ messages = "caller"
    /\ calls = 0
    /\ model = None
    /\ provider_configs = "default"
    /\ dicts = NoConfigs
    /\ second = SecondClient("default", NoConfigs)
    /\ configured = <<>>
    /\ providers = [k \in {} |-> 0]
    /\ constructed = <<>>
    /\ tools = PyNone
    /\ provider_key = None
    /\ model_name = None
    /\ options = {}
    /\ max_turns = 0
    /\ turns = 0
    /\ response = Unbound
    /\ intermediate_responses = <<>>
    /\ intermediate_messages = <<>>
    /\ result = NoResult
    /\ error = None
    /\ adapter_calls = <<>>

\* tools_instance.execute_tool(tool_calls)
ExecuteToolCall ==
    /\ UNCHANGED <<model, tools, provider_configs, dicts, second, configured, constructed, calls,
                 registration, registered,
                   keyword_arguments>>
    /\ pc = "execute_tool"
    /\ outcome' = ExecuteTool(tools_instance, batch)
    /\ invoked' = invoked \o outcome'.invoked
    /\ pc' = IF outcome'.raised THEN "raised" ELSE "executed"
    /\ error' = IF outcome'.raised THEN outcome'.error ELSE None
    /\ raised_by' = IF outcome'.raised THEN "execute_tool" ELSE None
    /\ UNCHANGED <<mode, lists, original, messages, providers, provider_key, model_name, options,
                   tools_instance, max_turns, turns, response, intermediate_responses,
                   intermediate_messages, result, adapter_calls, batch>>

NextExecute == ExecuteToolCall

SpecExecute == InitExecute /\ [][NextExecute]_vars

\* ------------------------------------------------------------------------
\* Tools._add_tool called directly on a registry
\* ------------------------------------------------------------------------
Callables ==
    {GetCurrentTemperature, GetCurrentTemperatureRedefined, MissingAnnotationTool,
     GetCurrentTemperatureV2, SetThermostat, GetLabel}
ParamModels == {NoParamModel, TemperatureParams, TemperatureParamsV2, ThermostatParams}

\* Tools(): an empty registry
InitRegister ==
    /\ pc = "registry"
    /\ mode = None
    /\ raised_by = None
    /\ tools_instance = ToolsInit(<<>>).tools
    /\ registration = NotRegistered
    /\ registered = <<>>
    /\ keyword_arguments = NoKwargs
    /\ batch = PyList(<<>>)
    /\ outcome = NotExecuted
    /\ invoked = <<>>
    /\ lists = [caller |-> <<>>, private |-> <<>>]
    /\ original = <<>>
    /\ messages = "caller"
    /\ calls = 0
    /\ model = None
    /\ provider_configs = "default"
    /\ dicts = NoConfigs
    /\ second = SecondClient("default", NoConfigs)
    /\ configured = <<>>
    /\ providers = [k \in {} |-> 0]
    /\ constructed = <<>>
    /\ tools = PyNone
    /\ provider_key = None
    /\ model_name = None
    /\ options = {}
    /\ max_turns = 0
    /\ turns = 0
    /\ response = Unbound
    /\ intermediate_responses = <<>>
    /\ intermediate_messages = <<>>
    /\ result = NoResult
    /\ error = None
    /\ adapter_calls = <<>>

\* tools_instance._add_tool(func, param_model)
AddToolCall(func, param_model) ==
    /\ pc = "registry"
    /\ Len(registered) < MaxRegistrations
    /\ LET added == AddTool(tools_instance, func, param_model)
       IN  /\ tools_instance' = added.tools
           /\ registered' = Append(registered, [func |-> func, param_model |-> param_model,
                                                raised |-> ~added.ok])
           /\ registration' = [func |-> func, param_model |-> param_model,
                               before |-> tools_instance, raised |-> ~added.ok,
                               error |-> added.error, detail |-> added.detail]
           /\ error' = IF added.ok THEN None ELSE added.error
           /\ raised_by' = IF added.ok THEN None ELSE "_add_tool"
    /\ UNCHANGED <<pc, mode, lists, original, messages, calls, model, provider_configs, dicts,
                   second, configured, providers,
                   constructed, tools, provider_key, model_name, options, max_turns, turns,
                   response, intermediate_responses, intermediate_messages, result,
                   adapter_calls, invoked, batch, outcome, keyword_arguments>>

\* the tool calls made on the registry after the registrations
RegisteredCalls ==
    {PyList(<<ToolCall("call_1", "get_current_temperature", arguments)>>) :
        arguments \in {ArgsLocation, ArgsLocationUnit, ArgsBadType}}

\* tools_instance.execute_tool(tool_calls), after the registrations
ExecuteRegistered(tool_calls) ==
    /\ pc = "registry"
    /\ registered # <<>>
    /\ batch' = tool_calls
    /\ outcome' = ExecuteTool(tools_instance, tool_calls)
    /\ invoked' = invoked \o outcome'.invoked
    /\ pc' = IF outcome'.raised THEN "raised" ELSE "executed"
    /\ error' = IF outcome'.raised THEN outcome'.error ELSE None
    /\ raised_by' = IF outcome'.raised THEN "execute_tool" ELSE None
    /\ UNCHANGED <<mode, lists, original, messages, calls, model, provider_configs, dicts,
                   second, configured, providers, constructed, tools, provider_key,
                   model_name, options, tools_instance, registration, registered,
                   keyword_arguments, max_turns,
                   turns, response, intermediate_responses, intermediate_messages, result,
                   adapter_calls>>

NextRegister ==
    \/ \E func \in Callables, param_model \in ParamModels : AddToolCall(func, param_model)
    \/ \E tool_calls \in RegisteredCalls : ExecuteRegistered(tool_calls)

SpecRegister == InitRegister /\ [][NextRegister]_vars

\* ------------------------------------------------------------------------
\* Completions._extract_thinking_content applied to one response
\* ------------------------------------------------------------------------
\* assistant texts with and without the markers: marker at the start, after
\* white space, after text, closing marker absent, two closing markers,
\* nothing between the markers, nothing after them
ThinkContents ==
    {None, "", "final answer",
     "<think>plan</think>final answer",
     " <think> plan </think> final answer ",
     "<think>plan",
     "answer <think>plan</think>",
     "<think>a</think>b</think>c",
     "<think></think>"}

FinishReasons == {None, "stop", "tool_calls"}

\* the responses an adapter hands back
RawResponses ==
    {Response(1, f, Message(c, b)) : f \in FinishReasons, c \in ThinkContents, b \in Batches}

InitExtract ==
    /\ pc = "extract"
    /\ response \in RawResponses
    /\ result = NoResult
    /\ mode = None
    /\ raised_by = None
    /\ tools_instance = EmptyRegistry
    /\ registration = NotRegistered
    /\ registered = <<>>
    /\ keyword_arguments = NoKwargs
    /\ batch = PyList(<<>>)
    /\ outcome = NotExecuted
    /\ invoked = <<>>
    /\ lists = [caller |-> <<>>, private |-> <<>>]
    /\ original = <<>>
    /\ messages = "caller"
    /\ calls = 0
    /\ model = None
    /\ provider_configs = "default"
    /\ dicts = NoConfigs
    /\ second = SecondClient("default", NoConfigs)
    /\ configured = <<>>
    /\ providers = [k \in {} |-> 0]
    /\ constructed = <<>>
    /\ tools = PyNone
    /\ provider_key = None
    /\ model_name = None
    /\ options = {}
    /\ max_turns = 0
    /\ turns = 0
    /\ intermediate_responses = <<>>
    /\ intermediate_messages = <<>>
    /\ error = None
    /\ adapter_calls = <<>>

\* self._extract_thinking_content(response)
ExtractCall ==
    /\ pc = "extract"
    /\ result' = [NoResult EXCEPT !.response = ExtractThinkingContent(response)]
    /\ pc' = "extracted"
    /\ UNCHANGED <<response, mode, raised_by, tools_instance, registration, registered, keyword_arguments,
                   batch, outcome,
                   invoked, lists, original, messages, calls, model, provider_configs, dicts,
                   second, configured, providers, constructed, tools, provider_key,
                   model_name, options, max_turns, turns, intermediate_responses,
                   intermediate_messages, error, adapter_calls>>

NextExtract == ExtractCall

SpecExtract == InitExtract /\ [][NextExtract]_vars

\* ========================================================================
\* Properties
\* ========================================================================
\* the i-th response of the run as the orchestrator obtained it: what the
\* i-th adapter call returned, post-processed
Obtained(i) == ExtractThinkingContent(adapter_calls[i].returned)

InToolRunner == mode = "tool_runner"

\* create returned from a multi-turn run
Returned == pc = "done" /\ InToolRunner

\* the run ended on a response without tool calls
NaturalEnd == Returned /\ result.response.message.tool_calls = <<>>

\* the run returned and every response of it requested a tool
ToolOnEveryTurn ==
    /\ Returned
    /\ \A i \in 1..Len(adapter_calls) : adapter_calls[i].returned.message.tool_calls # <<>>

\* C1: in a multi-turn run with max_turns = N the adapter's completion
\* operation is called at most N times, whatever the model returns.
C1_AtMostMaxTurnsCalls == InToolRunner => Len(adapter_calls) <= max_turns

C1_Witness == Returned /\ max_turns = MaxTurns /\ Len(adapter_calls) = MaxTurns

C3_NaturalEndReturnsKth ==
    NaturalEnd =>
        LET k == Len(adapter_calls)
        IN  /\ k \in 1..max_turns
            /\ result.response = Obtained(k)
            /\ result.intermediate_responses = [i \in 1..(k - 1) |-> Obtained(i)]
            /\ \A i \in 1..Len(result.intermediate_responses) :
                  result.intermediate_responses[i].id # result.response.id

C3_Witness == NaturalEnd /\ Len(adapter_calls) = 3 /\ result.response.id = 3

\* C4 as stated: when the model requests a tool on every turn up to
\* max_turns, the returned intermediate_responses has length max_turns.
C4_IntermediateLengthIsMaxTurns ==
    ToolOnEveryTurn => Len(result.intermediate_responses) = max_turns

\* C4 amended: when the model requests a tool on every turn up to max_turns
\* and a response is returned, its intermediate_responses has length
\* max_turns - 1.
C4_IntermediateLengthIsMaxTurnsLessOne ==
    ToolOnEveryTurn => Len(result.intermediate_responses) = max_turns - 1

C4_Witness == ToolOnEveryTurn /\ max_turns = 3 /\ Len(result.intermediate_responses) = 2

\* C5: on forced termination with max_turns = N >= 1 the returned object is
\* the N-th, last obtained response, still carrying its tool calls, and its
\* intermediate_responses holds the first N-1 responses in order.
C5_ForcedEndReturnsLast ==
    ToolOnEveryTurn =>
        /\ max_turns >= 1
        /\ Len(adapter_calls) = max_turns
        /\ result.response = Obtained(max_turns)
        /\ result.response.id = max_turns
        /\ result.response.message.tool_calls
             = adapter_calls[max_turns].returned.message.tool_calls
        /\ result.response.message.tool_calls # <<>>
        /\ result.intermediate_responses = [i \in 1..(max_turns - 1) |-> Obtained(i)]

\* Scenario E: max_turns = 2, a tool requested on both turns
C5_Witness ==
    /\ ToolOnEveryTurn
    /\ max_turns = 2
    /\ result.response.id = 2
    /\ Len(result.intermediate_responses) = 1

\* every response of the run requested exactly one tool
OneToolOnEveryTurn ==
    /\ ToolOnEveryTurn
    /\ \A i \in 1..Len(adapter_calls) :
          Len(adapter_calls[i].returned.message.tool_calls) = 1

\* C6: when the model requests exactly one tool on every turn up to
\* max_turns, intermediate_messages holds, for each turn in order, that
\* turn's assistant message followed by its tool message, and nothing else.
C6_IntermediateMessagesAlternate ==
    OneToolOnEveryTurn =>
        /\ Len(result.intermediate_messages) = 2 * max_turns
        /\ \A i \in 1..max_turns :
              LET assistant == result.intermediate_messages[2 * i - 1]
                  tool == result.intermediate_messages[2 * i]
                  request == Obtained(i).message.tool_calls[1]
              IN  /\ assistant = Obtained(i).message
                  /\ tool.role = "tool"
                  /\ tool.tool_call_id = request.id
                  /\ tool.name = request.function.name

C6_Witness ==
    OneToolOnEveryTurn /\ max_turns = 3 /\ Len(result.intermediate_messages) = 6

\* C7: for every max_turns >= 0 with a valid tool list, a multi-turn run in
\* which neither the adapter nor a tool fails returns a response and never
\* raises, max_turns = 0 included.
C7_MaxTurnsNeverRaises ==
    (pc = "raised" /\ InToolRunner) =>
        raised_by \in {"callable_check", "Tools.__init__", "adapter", "execute_tool"}

\* the assistant message at position p of a transcript is followed by one
\* tool message per entry of its tool_calls, in order, with matching ids,
\* and by no further tool message
Answered(transcript, p) ==
    LET requests == transcript[p].tool_calls
        n == Len(requests)
    IN  /\ p + n <= Len(transcript)
        /\ \A j \in 1..n : /\ transcript[p + j].role = "tool"
                           /\ transcript[p + j].tool_call_id = requests[j].id
        /\ p + n + 1 <= Len(transcript) => transcript[p + n + 1].role # "tool"

\* the positions of the assistant messages with tool calls in a transcript
Requests(transcript) ==
    {p \in 1..Len(transcript) :
        /\ transcript[p].role = "assistant"
        /\ "tool_calls" \in DOMAIN transcript[p]
        /\ transcript[p].tool_calls # <<>>}

\* C8: at every model call of a multi-turn run, each assistant message with
\* tool calls in the transcript is immediately followed by exactly one tool
\* message per entry of its tool_calls, in the same order, each with the
\* tool_call_id of the entry it answers.
C8_ToolCallsAnsweredAtModelCall ==
    InToolRunner =>
        \A i \in 1..Len(adapter_calls) :
            \A p \in Requests(adapter_calls[i].messages) :
                Answered(adapter_calls[i].messages, p)

C8_Witness ==
    /\ InToolRunner
    /\ \E i \in 1..Len(adapter_calls) :
          \E p \in Requests(adapter_calls[i].messages) :
              LET requests == adapter_calls[i].messages[p].tool_calls
              IN  Len(requests) = 2 /\ requests[1].id # requests[2].id

\* the tool calls of the batch handed to execute_tool, as a list
BatchCalls == IF batch.type = "list" THEN batch.value ELSE <<batch.value>>

\* C9: for a batch c1..cn that execute_tool processes without error, results
\* and messages have length n and are index-aligned with the input:
\* messages[i] has role "tool", ci's function name, ci's id and the JSON
\* encoding of results[i], also when ids repeat; a tool call passed without
\* a list is a one-element batch.
C9_ResultsAlignedWithCalls ==
    pc = "executed" =>
        /\ Len(outcome.results) = Len(BatchCalls)
        /\ Len(outcome.messages) = Len(BatchCalls)
        /\ batch.type # "list" => Len(outcome.messages) = 1
        /\ \A i \in 1..Len(BatchCalls) :
              /\ outcome.messages[i].role = "tool"
              /\ outcome.messages[i].name = BatchCalls[i].function.name
              /\ outcome.messages[i].tool_call_id = BatchCalls[i].id
              /\ outcome.messages[i].content = JsonDumps(outcome.results[i])
              /\ outcome.results[i][1]
                   = <<"location",
                       JsonLoads(BatchCalls[i].function.arguments).value["location"].v>>

C9_Witness ==
    /\ pc = "executed"
    /\ Len(BatchCalls) = 2
    /\ BatchCalls[1].id = BatchCalls[2].id
    /\ outcome.results[1] # outcome.results[2]
    /\ outcome.messages[1].tool_call_id = outcome.messages[2].tool_call_id

\* C10: a multi-turn run works on a private copy of the caller's message
\* list: whether create returns or raises, the caller's list holds the same
\* elements in the same order as before the call.
C10_CallerListUnchanged == InToolRunner => lists["caller"] = original

C10_Witness ==
    /\ Returned
    /\ provider_key = "anthropic"
    /\ original[1].role = "system"
    /\ turns >= 1
    /\ Len(lists[messages]) = Len(original) - 1 + 2 * turns

\* C11: in every create(...) call, with or without max_turns, the list handed
\* to the adapter is a private copy, never the caller's list object, and the
\* caller's list stays as it was whatever the adapter does to the list it got
C11_AdapterGetsPrivateCopy ==
    mode # None => /\ messages # "caller"
                   /\ lists["caller"] = original

\* create was called with max_turns and a tools argument that is a plain
\* sequence holding an element that is not callable
NotCallableInSequence ==
    /\ InToolRunner
    /\ IsList(tools)
    /\ \E i \in 1..Len(tools.value) : ~tools.value[i].callable

\* C12: create with max_turns and a plain sequence of tools of which one is
\* not callable raises the tool-configuration error (ValueError, "One or more
\* tools is not callable") and the adapter has been called zero times
C12_NotCallableRaisesBeforeModelCall ==
    NotCallableInSequence =>
        /\ pc = "raised"
        /\ error = "ValueError"
        /\ raised_by = "callable_check"
        /\ adapter_calls = <<>>
        /\ invoked = <<>>

C12_Witness ==
    /\ NotCallableInSequence
    /\ pc = "raised"
    /\ tools = PyList(<<GetCurrentTemperature, NotAFunction>>)
    /\ max_turns = 2

\* the last _add_tool call registered a callable that has a parameter without
\* a type annotation
RegisteredUnannotated ==
    pc = "registry" /\ registration.func.callable /\ Unannotated(registration.func) # {}

\* the TypeError of the last _add_tool call names the first parameter without
\* annotation and the function
NamesParameterAndFunction ==
    LET func == registration.func
        first == CHOOSE i \in Unannotated(func) : \A j \in Unannotated(func) : i <= j
    IN  registration.detail =
            "Parameter '" \o func.params[first].name \o "' in function '" \o func.name
            \o "' must have a type annotation."

\* C13 as stated: whichever way a callable with a parameter without annotation
\* is registered, by inference or with an explicit parameter model, the
\* registration raises the schema error naming parameter and function and
\* the registry has no entry for the callable afterwards
C13_UnannotatedNeverRegistered ==
    RegisteredUnannotated =>
        /\ registration.raised
        /\ registration.error = "TypeError"
        /\ NamesParameterAndFunction
        /\ registration.func.name \notin DOMAIN tools_instance

\* registered by signature inference (no parameter model given), a callable
\* with a parameter without annotation makes _add_tool raise TypeError naming
\* the first such parameter and the function, and the registry is left as
\* the call found it
UnannotatedInferenceRaises ==
    (RegisteredUnannotated /\ ~registration.param_model.given) =>
        /\ registration.raised
        /\ registration.error = "TypeError"
        /\ NamesParameterAndFunction
        /\ tools_instance = registration.before

\* registered with an explicit parameter model, the same callable is entered
\* in the registry with the fields of that model and nothing is raised
UnannotatedWithModelRegisters ==
    (RegisteredUnannotated /\ registration.param_model.given) =>
        /\ ~registration.raised
        /\ registration.func.name \in DOMAIN tools_instance
        /\ tools_instance[registration.func.name].param_model =
               registration.param_model.fields

\* C13: a callable with a parameter without annotation fails registration
\* with TypeError naming parameter and function, the registry unchanged, when
\* it is registered by signature inference; registered with an explicit
\* parameter model it is accepted and entered with that model
C13_UnannotatedRaisesOnlyByInference ==
    UnannotatedInferenceRaises /\ UnannotatedWithModelRegisters

C13_Witness ==
    /\ RegisteredUnannotated
    /\ ~registration.param_model.given
    /\ registration.raised
    /\ registration.detail = "Parameter 'location' in function 'missing_annotation_tool' must have a type annotation."
    /\ "missing_annotation_tool" \in DOMAIN tools_instance

\* the calls of the batch that name a tool the registry does not hold
Unregistered ==
    {i \in 1..Len(BatchCalls) : BatchCalls[i].function.name \notin DOMAIN tools_instance}

\* execute_tool was called on a batch with a call to an unregistered tool
ExecutedUnregistered == pc # "execute_tool" /\ Unregistered # {}

\* the error naming the unregistered tool of call k
NotRegisteredError(k) ==
    /\ outcome.error = "ValueError"
    /\ outcome.detail = "Tool '" \o BatchCalls[k].function.name \o "' not registered."

\* C14 as stated: a batch with a call to an unregistered tool makes
\* execute_tool raise an error naming that tool, with no results and no
\* messages for any call
C14_UnregisteredAlwaysNamed ==
    ExecutedUnregistered =>
        /\ outcome.raised
        /\ \E k \in Unregistered : NotRegisteredError(k)
        /\ outcome.results = <<>> /\ outcome.messages = <<>>

\* C14: a batch with a call to an unregistered tool never returns: the
\* execute call raises at or before the first such call k, with no results
\* and no messages; it raises the error naming the tool when the loop reaches
\* call k and its arguments parse, the JSON error when they do not parse; in
\* a multi-turn run the exception leaves create with no further model call
C14_UnregisteredAbortsBatch ==
    ExecutedUnregistered =>
        LET k == CHOOSE i \in Unregistered : \A j \in Unregistered : i <= j
        IN  /\ outcome.raised /\ pc = "raised" /\ raised_by = "execute_tool"
            /\ error = outcome.error
            /\ outcome.results = <<>> /\ outcome.messages = <<>>
            /\ outcome.at <= k
            /\ outcome.at = k =>
                  IF JsonLoads(BatchCalls[k].function.arguments).ok
                  THEN outcome.stage = "lookup" /\ NotRegisteredError(k)
                  ELSE outcome.stage = "parse" /\ outcome.error = "JSONDecodeError"
            /\ InToolRunner =>
                  /\ adapter_calls[Len(adapter_calls)].returned.message.tool_calls = BatchCalls
                  /\ Len(adapter_calls) = turns + 1
                  /\ result = NoResult

C14_Witness ==
    /\ ExecutedUnregistered
    /\ InToolRunner
    /\ Len(adapter_calls) = 2
    /\ Len(BatchCalls) = 2
    /\ outcome.at = 2
    /\ outcome.detail = "Tool 'get_weather' not registered."
    /\ Len(invoked) = 3

\* what happens to call i of the batch when the loop reaches it
Parses(i) == JsonLoads(BatchCalls[i].function.arguments).ok
IsRegistered(i) == BatchCalls[i].function.name \in DOMAIN tools_instance
Validates(i) ==
    ValidateArgs(tools_instance[BatchCalls[i].function.name].param_model,
                 JsonLoads(BatchCalls[i].function.arguments).value).ok
Invokes(i) == Parses(i) /\ IsRegistered(i) /\ Validates(i)
Completes(i) ==
    Invokes(i) /\ tools_instance[BatchCalls[i].function.name].function.raises = None

\* the calls of the batch that cannot complete, and the first of them
Failing == {i \in 1..Len(BatchCalls) : ~Completes(i)}
FirstFailing == CHOOSE i \in Failing : \A j \in Failing : i <= j

\* invoked[i] is the invocation of the callable of call i, for i up to n
InvokedInOrder(n) ==
    /\ Len(invoked) = n
    /\ \A i \in 1..n : /\ invoked[i].name = BatchCalls[i].function.name
                       /\ invoked[i].id = BatchCalls[i].id

\* execute_tool has run on a batch whose first failing call fails validation
ValidationFailed ==
    /\ pc # "execute_tool"
    /\ Failing # {}
    /\ Parses(FirstFailing) /\ IsRegistered(FirstFailing) /\ ~Validates(FirstFailing)

\* C15: when the arguments of a call fail validation against the tool's
\* parameter model, execute_tool raises the validation error (ValueError)
\* whose message holds the tool's name, the callable is not invoked for that
\* call, with defaults or otherwise, and the execute call returns nothing
C15_ValidationFailureAborts ==
    ValidationFailed =>
        /\ pc = "raised" /\ outcome.raised
        /\ outcome.error = "ValueError"
        /\ outcome.detail =
              "Error in tool '" \o BatchCalls[FirstFailing].function.name \o "' parameters: "
        /\ outcome.at = FirstFailing
        /\ InvokedInOrder(FirstFailing - 1)
        /\ outcome.results = <<>> /\ outcome.messages = <<>>

C15_Witness ==
    /\ ValidationFailed
    /\ pc = "raised"
    /\ batch = PyList(<<ToolCall("call_1", "get_current_temperature", ArgsLocation),
                        ToolCall("call_2", "get_current_temperature", ArgsBadType)>>)
    /\ Len(invoked) = 1

\* execute_tool has run on a batch whose first failing call is one whose
\* callable raises
CallableRaised ==
    /\ pc # "execute_tool"
    /\ Failing # {}
    /\ Invokes(FirstFailing)

\* C16: an exception raised by the invoked callable leaves execute_tool as
\* the same exception, of the same kind and with nothing added, whatever its
\* kind, a validation-library error raised in the callable's body included
C16_CallableExceptionUnmodified ==
    CallableRaised =>
        /\ pc = "raised" /\ outcome.raised
        /\ outcome.error = tools_instance[BatchCalls[FirstFailing].function.name].function.raises
        /\ outcome.detail = ""

\* C17: the calls of a batch are executed one at a time in the order
\* received; when call k fails, at parsing, lookup, validation or in the
\* callable, the callables of calls 1..k-1 have each been invoked once, in
\* order, those of calls k+1..n never, and that of call k only when it is the
\* callable that failed; when no call fails each callable is invoked once
C17_InvokedInOrderUpToFailure ==
    pc # "execute_tool" =>
        IF Failing = {}
        THEN pc = "executed" /\ InvokedInOrder(Len(BatchCalls))
        ELSE /\ pc = "raised"
             /\ outcome.at = FirstFailing
             /\ IF Invokes(FirstFailing)
                THEN InvokedInOrder(FirstFailing) ELSE InvokedInOrder(FirstFailing - 1)

C17_Witness ==
    /\ pc = "raised"
    /\ Len(BatchCalls) = 2
    /\ FirstFailing = 1
    /\ Invokes(1)
    /\ Completes(2)
    /\ Len(invoked) = 1

\* the position of the first colon of a model identifier that has one
FirstColon(s) ==
    CHOOSE i \in 1..Len(s) :
        SubSeq(s, i, i) = ":" /\ \A j \in 1..(i - 1) : SubSeq(s, j, j) # ":"
HasColon(s) == \E i \in 1..Len(s) : SubSeq(s, i, i) = ":"
KeyOf(s) == SubSeq(s, 1, FirstColon(s) - 1)
NameOf(s) == SubSeq(s, FirstColon(s) + 1, Len(s))

\* the step is an adapter call, and e is what reached the adapter
IsAdapterCall(e) == adapter_calls' = Append(adapter_calls, e)

\* C18: create splits the model identifier at its first colon only: an
\* identifier whose part before the first colon is a supported provider is not
\* turned down, each adapter call of create goes to the adapter of that part,
\* with everything after the first colon as model name, further colons kept,
\* and a step calls no other adapter
C18_SplitAtFirstColon ==
    [][/\ (calls' = calls + 1 /\ HasColon(model') /\ KeyOf(model') \in SupportedProviders)
            => raised_by' # "create"
       /\ adapter_calls' # adapter_calls =>
            LET e == adapter_calls'[Len(adapter_calls')]
            IN  /\ IsAdapterCall(e)
                /\ e.provider = KeyOf(model)
                /\ e.model = NameOf(model)
                /\ e.instance = providers[e.provider]
                /\ model = "groq:llama3-70b-8192" =>
                      e.provider = "groq" /\ e.model = "llama3-70b-8192"
                /\ model = "aws:meta.llama3-1-8b-instruct-v1:0" =>
                      e.provider = "aws" /\ e.model = "meta.llama3-1-8b-instruct-v1:0"
      ]_vars

C18_Witness ==
    /\ pc = "done"
    /\ model = "aws:meta.llama3-1-8b-instruct-v1:0"
    /\ adapter_calls[Len(adapter_calls)].provider = "aws"
    /\ adapter_calls[Len(adapter_calls)].model = "meta.llama3-1-8b-instruct-v1:0"
    /\ \E i \in 1..Len(adapter_calls) :
          adapter_calls[i].provider = "groq" /\ adapter_calls[i].model = "llama3-70b-8192"

\* a model identifier without a colon, or whose part before the first colon
\* is not a supported provider
InvalidModel(s) == ~HasColon(s) \/ KeyOf(s) \notin SupportedProviders

\* C19: create with a model identifier that has no colon or an unsupported
\* provider key raises the configuration error (ValueError) in create itself,
\* with no adapter constructed and none called, and the client's cache of
\* adapter instances is as it was before the call
C19_InvalidModelRaisesFirst ==
    [][(calls' = calls + 1 /\ InvalidModel(model')) =>
          /\ pc' = "raised"
          /\ error' = "ValueError"
          /\ raised_by' = "create"
          /\ providers' = providers
          /\ constructed' = constructed
          /\ adapter_calls' = adapter_calls
      ]_vars

C19_Witness ==
    /\ pc = "raised"
    /\ raised_by = "create"
    /\ model = "unknown:foo"
    /\ DOMAIN providers = {"groq", "aws"}
    /\ Len(adapter_calls) = 2

\* C20: over the create calls made on one client, no provider key has had
\* two adapter instances constructed, the cache holds for each key the
\* instance constructed for it, and every adapter call for a key went to
\* that instance
C20_OneInstancePerKey ==
    configured = <<>> =>
    /\ \A i, j \in 1..Len(constructed) :
          constructed[i].key = constructed[j].key => i = j
    /\ \A k \in DOMAIN providers :
          \E i \in 1..Len(constructed) :
              constructed[i].key = k /\ constructed[i].instance = providers[k]
    /\ \A c \in 1..Len(adapter_calls) :
          /\ adapter_calls[c].provider \in DOMAIN providers
          /\ adapter_calls[c].instance = providers[adapter_calls[c].provider]

C20_Witness ==
    /\ calls = 3
    /\ pc = "done"
    /\ dicts[provider_configs] = <<>>
    /\ Len(adapter_calls) = 3
    /\ adapter_calls[1].provider = "groq"
    /\ adapter_calls[2].provider = "aws"
    /\ adapter_calls[3].provider = "groq"
    /\ adapter_calls[1].instance = adapter_calls[3].instance
    /\ Len(constructed) = 2

\* the step is a configure(...) call with a dict that returned
IsConfigure ==
    /\ Len(configured') = Len(configured) + 1
    /\ configured'[Len(configured')].provider_configs.given
    /\ ~configured'[Len(configured')].raised

\* the items of the dict that call was given
ConfiguredItems == configured'[Len(configured')].provider_configs.items

\* C21: configure({P: cfg}) gives P a new adapter instance built from cfg and
\* leaves the cached adapter instance of every other provider key the same
\* object as before the call
C21_ConfigureRebuildsOnlyItsKeys ==
    [][IsConfigure =>
          /\ \A n \in 1..Len(ConfiguredItems) :
                LET P == ConfiguredItems[n].key
                IN  /\ P \in DOMAIN providers'
                    /\ \A i \in 1..Len(constructed) : constructed[i].instance # providers'[P]
                    /\ \E i \in 1..Len(constructed') :
                          /\ constructed'[i].instance = providers'[P]
                          /\ constructed'[i].key = P
                          /\ constructed'[i].config = ConfiguredItems[n].config
          /\ \A Q \in DOMAIN providers :
                Q \notin {ConfiguredItems[n].key : n \in 1..Len(ConfiguredItems)} =>
                    providers'[Q] = providers[Q]
      ]_vars

\* positions and parts of a text s around the markers
Opening == "<think>"
Closing == "</think>"
BeginsWithOpening(s) == Len(s) >= Len(Opening) /\ SubSeq(s, 1, Len(Opening)) = Opening
ClosingAt(s, i) == i + Len(Closing) - 1 <= Len(s) /\ SubSeq(s, i, i + Len(Closing) - 1) = Closing
HasClosing(s) == \E i \in 1..Len(s) : ClosingAt(s, i)
FirstClosing(s) == CHOOSE i \in 1..Len(s) : ClosingAt(s, i) /\ \A j \in 1..(i - 1) : ~ClosingAt(s, j)
Between(s) == SubSeq(s, Len(Opening) + 1, FirstClosing(s) - 1)
Remainder(s) == SubSeq(s, FirstClosing(s) + Len(Closing), Len(s))

\* the message of the response before and after the post-processing
RawMessage == response.message
Extracted == result.response.message

\* nothing but content and reasoning_content differs between the two
OnlyContentChanged ==
    result.response = [response EXCEPT !.message.content = Extracted.content,
                                       !.message.reasoning_content = Extracted.reasoning_content]

\* C22 as stated: the opening marker is looked for at the start of the
\* content as returned, reasoning_content is the text between the markers
\* as it stands, and every other content is left as returned
C22_ExtractionOnContentAsReturned ==
    pc = "extracted" =>
        IF /\ RawMessage.content \notin {None, ""}
           /\ BeginsWithOpening(RawMessage.content) /\ HasClosing(RawMessage.content)
        THEN /\ Extracted.reasoning_content = Between(RawMessage.content)
             /\ Extracted.content = Strip(Remainder(RawMessage.content))
        ELSE result.response = response

\* C22: when the content, trimmed of white space at both ends, begins with
\* the opening marker and holds the closing marker, reasoning_content is the
\* trimmed text between the opening marker and the first closing marker and
\* content the trimmed remainder; in every other case the response is left
\* exactly as returned, its content not trimmed
C22_ExtractionOnTrimmedContent ==
    pc = "extracted" =>
        /\ OnlyContentChanged
        /\ IF /\ RawMessage.content \notin {None, ""}
              /\ BeginsWithOpening(Strip(RawMessage.content))
              /\ HasClosing(Strip(RawMessage.content))
           THEN /\ Extracted.reasoning_content = Strip(Between(Strip(RawMessage.content)))
                /\ Extracted.content = Strip(Remainder(Strip(RawMessage.content)))
           ELSE result.response = response
        /\ RawMessage.content = "<think>plan</think>final answer" =>
              Extracted.reasoning_content = "plan" /\ Extracted.content = "final answer"
        /\ RawMessage.content = " <think> plan </think> final answer " =>
              Extracted.reasoning_content = "plan" /\ Extracted.content = "final answer"
        /\ RawMessage.content = "<think>a</think>b</think>c" =>
              Extracted.reasoning_content = "a" /\ Extracted.content = "b</think>c"
        /\ RawMessage.content = "<think></think>" =>
              Extracted.reasoning_content = "" /\ Extracted.content = ""
        /\ RawMessage.content \in {None, "", "final answer", "<think>plan",
                                   "answer <think>plan</think>"} =>
              result.response = response

C22_Witness ==
    /\ pc = "extracted"
    /\ RawMessage.content = " <think> plan </think> final answer "
    /\ RawMessage.tool_calls # <<>>
    /\ Extracted.reasoning_content = "plan"
    /\ Extracted.content = "final answer"
    /\ Extracted.tool_calls = RawMessage.tool_calls

\* the last direct _add_tool call registered its callable
Registered == pc = "registry" /\ registration # NotRegistered /\ ~registration.raised

\* the entry that call stored
LastEntry == tools_instance[registration.func.name]

\* the names of the parameters of func that have no default, in the order
\* of the declaration
RECURSIVE WithoutDefault(_)
WithoutDefault(params) ==
    IF params = <<>> THEN <<>>
    ELSE (IF Head(params).default = Empty THEN <<Head(params).name>> ELSE <<>>)
           \o WithoutDefault(Tail(params))

\* C23: after a registration by signature inference the required list holds
\* exactly the parameters without a default, in declaration order; a
\* parameter with a default has it in the default field of its property (an
\* Enum member as the member or as its underlying value), a parameter
\* without one has no default field
C23_RequiredAndDefaultsFollowSignature ==
    (Registered /\ ~registration.param_model.given) =>
        LET params == registration.func.params
            parameters == LastEntry.spec.parameters
        IN  /\ parameters.required = WithoutDefault(params)
            /\ DOMAIN parameters.properties = {params[i].name : i \in 1..Len(params)}
            /\ \A i \in 1..Len(params) :
                  LET property == parameters.properties[params[i].name]
                  IN  IF params[i].default = Empty
                      THEN "default" \notin DOMAIN property
                      ELSE /\ "default" \in DOMAIN property
                           /\ property["default"].v = params[i].default.v
            /\ registration.func = GetCurrentTemperature =>
                  /\ parameters.required = <<"location">>
                  /\ parameters.properties["location"]["type"] = JStr("string")
                  /\ parameters.properties["unit"]["type"] = JStr("string")

\* C24: in every entry of the registry, however it was registered, a str,
\* int, float or bool field has the type string, integer, number or boolean,
\* and a field of an Enum type has the type string and an enum list with the
\* underlying values of the members in definition order; a default that is
\* an Enum member appears as its underlying value
C24_TypesMapToJsonSchema ==
    pc = "registry" =>
        \A n \in DOMAIN tools_instance :
            LET fields == tools_instance[n].param_model
                properties == tools_instance[n].spec.parameters.properties
            IN  \A i \in 1..Len(fields) :
                    LET property == properties[fields[i].name]
                    IN  /\ fields[i].annotation = "str" => property["type"] = JStr("string")
                        /\ fields[i].annotation = "int" => property["type"] = JStr("integer")
                        /\ fields[i].annotation = "float" => property["type"] = JStr("number")
                        /\ fields[i].annotation = "bool" => property["type"] = JStr("boolean")
                        /\ fields[i].annotation = "TemperatureUnit" =>
                              /\ property["type"] = JStr("string")
                              /\ property["enum"] = <<JStr("Celsius"), JStr("Fahrenheit")>>
                              /\ fields[i].default = EnumMember("TemperatureUnit", "Celsius") =>
                                    property["default"] = JStr("Celsius")
                        /\ fields[i].annotation # "TemperatureUnit" =>
                              "enum" \notin DOMAIN property

C24_Witness ==
    /\ pc = "registry"
    /\ {"set_thermostat", "get_current_temperature_v2"} \subseteq DOMAIN tools_instance
    /\ \E i, j \in 1..Len(registered) :
          /\ registered[i].func = SetThermostat /\ ~registered[i].param_model.given
          /\ registered[j].func = GetCurrentTemperatureV2
          /\ registered[j].param_model = TemperatureParamsV2
    /\ tools_instance["set_thermostat"].spec.parameters.properties["target"]["type"]
           = JStr("number")
    /\ tools_instance["set_thermostat"].spec.parameters.properties["hold"]["type"]
           = JStr("boolean")
    /\ tools_instance["get_current_temperature_v2"].spec.parameters.properties["unit"]["default"]
           = JStr("Celsius")

\* the positions in the log of the registrations under the name n that
\* raised nothing
Successful(n) == {i \in 1..Len(registered) : registered[i].func.name = n /\ ~registered[i].raised}

\* the most recent of them
MostRecent(n) == registered[CHOOSE i \in Successful(n) : \A j \in Successful(n) : j <= i]

\* the parameter model a registration leaves: the given one, or the one
\* inferred from the signature
ModelOf(r) ==
    IF r.param_model.given THEN r.param_model.fields
    ELSE InferFromSignature(r.func).param_model

\* C25: after any sequence of registrations the registry holds one entry
\* for each name registered with success, the one of the most recent such
\* registration; a tool call made afterwards under that name is validated
\* against the model of that registration and invokes its callable
C25_MostRecentRegistrationWins ==
    /\ DOMAIN tools_instance = {n \in {registered[i].func.name : i \in 1..Len(registered)} :
                                   Successful(n) # {}}
    /\ \A n \in DOMAIN tools_instance :
          /\ tools_instance[n].function = MostRecent(n).func
          /\ tools_instance[n].param_model = ModelOf(MostRecent(n))
    /\ (pc \in {"executed", "raised"} /\ registered # <<>>) =>
          LET n == batch.value[1].function.name
              arguments == JsonLoads(batch.value[1].function.arguments).value
          IN  IF Successful(n) = {}
              THEN outcome.raised /\ outcome.stage = "lookup" /\ outcome.invoked = <<>>
              ELSE LET validated == ValidateArgs(ModelOf(MostRecent(n)), arguments)
                   IN  IF ~validated.ok
                       THEN /\ outcome.raised /\ outcome.stage = "validate"
                            /\ outcome.invoked = <<>>
                       ELSE /\ Len(outcome.invoked) = 1
                            /\ outcome.invoked[1].kwargs = validated.args
                            /\ outcome.raised = (MostRecent(n).func.raises # None)
                            /\ outcome.raised => outcome.error = MostRecent(n).func.raises
                            /\ ~outcome.raised =>
                                  outcome.results =
                                      <<CallTool(MostRecent(n).func, validated.args).value>>

\* the original callable was registered, the later definition was
\* registered over it, and the call reached the later definition
C25_Witness ==
    /\ pc = "raised"
    /\ Len(registered) = 2
    /\ registered[1].func = GetCurrentTemperature /\ ~registered[1].raised
    /\ registered[2].func = GetCurrentTemperatureRedefined /\ ~registered[2].raised
    /\ outcome.stage = "call"
    /\ outcome.error = "RuntimeError"
    /\ Len(outcome.invoked) = 1

\* the later definition was registered first and the original over it; the
\* call is validated against the enum model of the second registration and
\* returns the original's result
C25_WitnessReturns ==
    /\ pc = "executed"
    /\ Len(registered) = 2
    /\ registered[1].func = GetCurrentTemperatureRedefined /\ ~registered[1].raised
    /\ registered[2].func = GetCurrentTemperature
    /\ registered[2].param_model = TemperatureParamsV2
    /\ outcome.invoked[1].kwargs["unit"] = "Fahrenheit"
    /\ Len(outcome.results) = 1

\* the caller passed the keyword argument k to create
Supplied(k) == k \in DOMAIN keyword_arguments

C26_WitnessMaxTurnsOnly ==
    /\ pc = "done"
    /\ mode = "single"
    /\ Supplied("max_turns") /\ ~Supplied("tools")
    /\ adapter_calls[1].options = {}

\* the model calls of the run whose response carries tool calls
WithToolCalls == {i \in 1..Len(adapter_calls) : Obtained(i).message.tool_calls # <<>>}

\* the tool calls requested by the first n responses of the run, in order
RECURSIVE RequestedUpTo(_)
RequestedUpTo(n) ==
    IF n = 0 THEN <<>> ELSE RequestedUpTo(n - 1) \o Obtained(n).message.tool_calls

\* the last n items of a sequence
LastItems(s, n) == SubSeq(s, Len(s) - n + 1, Len(s))

\* C27: in a multi-turn run every response that carries tool calls has its
\* tools executed before the loop goes on or ends, the response of the
\* max_turns-th model call included: on forced termination the tools of the
\* returned response were invoked, their tool messages end
\* intermediate_messages, and as many tool batches were executed as model
\* calls were made, max_turns
C27_LastTurnToolsExecuted ==
    (InToolRunner /\ pc \in {"loop", "done"}) =>
        /\ turns = Cardinality(WithToolCalls)
        /\ Len(invoked) = Len(RequestedUpTo(Len(adapter_calls)))
        /\ \A k \in 1..Len(invoked) :
              /\ invoked[k].id = RequestedUpTo(Len(adapter_calls))[k].id
              /\ invoked[k].name = RequestedUpTo(Len(adapter_calls))[k].function.name
        /\ ToolOnEveryTurn =>
              LET requested == result.response.message.tool_calls
                  answers == LastItems(result.intermediate_messages, Len(requested))
              IN  /\ turns = max_turns
                  /\ Len(adapter_calls) = max_turns
                  /\ requested # <<>>
                  /\ Len(result.intermediate_messages) > Len(requested)
                  /\ \A k \in 1..Len(requested) :
                        /\ answers[k].role = "tool"
                        /\ answers[k].tool_call_id = requested[k].id
                        /\ LastItems(invoked, Len(requested))[k].id = requested[k].id

\* forced termination after two model calls, the second requesting two tools
C27_Witness ==
    /\ ToolOnEveryTurn
    /\ max_turns = 2
    /\ turns = 2
    /\ Len(result.response.message.tool_calls) = 2
    /\ Len(invoked) >= 3
    /\ result.intermediate_messages[Len(result.intermediate_messages)].role = "tool"

\* C28: in a multi-turn run every adapter call receives the options that
\* create would pass without max_turns, every keyword argument of the
\* caller but max_turns (temperature among them, tools in wire format), and
\* the same options on every turn
C28_OptionsForwardedEveryTurn ==
    InToolRunner =>
        \A i \in 1..Len(adapter_calls) :
            /\ adapter_calls[i].options = DOMAIN keyword_arguments \ {"max_turns"}
            /\ adapter_calls[i].options = adapter_calls[1].options

\* the step is a configure(...) call on the client
ConfigureCalled == Len(configured') = Len(configured) + 1

\* C29: a configure(...) call on the client changes neither the provider
\* configuration map nor the cached adapters of the second Client, however
\* the two were constructed
C29_ConfigureLeavesOtherClient ==
    [][ConfigureCalled =>
          /\ dicts'[second'.provider_configs] = dicts[second.provider_configs]
          /\ second'.providers = second.providers
      ]_vars

\* a multi-turn run through the Anthropic adapter on a caller transcript
\* that starts with a system message
AnthropicRunWithSystem ==
    /\ InToolRunner
    /\ provider_key = "anthropic"
    /\ original # <<>>
    /\ original[1].role = "system"

\* the transcript at a model call is the caller's original messages
\* followed by the assistant and tool messages accumulated until then
OriginalThenAccumulated(transcript) ==
    transcript = original \o SubSeq(intermediate_messages, 1, Len(transcript) - Len(original))

\* C30: in such a run the list handed to the adapter at every model call
\* starts with the caller's system message, which the adapter sends as the
\* system prompt, and equals the caller's original messages followed by the
\* assistant and tool messages accumulated so far
C30_SystemMessageOnEveryCall ==
    AnthropicRunWithSystem =>
        \A i \in 1..Len(adapter_calls) :
            /\ adapter_calls[i].messages # <<>>
            /\ adapter_calls[i].messages[1] = original[1]
            /\ OriginalThenAccumulated(adapter_calls[i].messages)

====
